---------------------------- MODULE Spec2Model ----------------------------
(***************************************************************************)
(* StackIt Q&A backend: the community scoring and state-consistency core.  *)
(* Vote rows, per-answer vote_score, per-user reputation_score, answer     *)
(* acceptance and the answer counters, as written by the handlers of       *)
(* services/vote_service.py, services/answer_service.py,                   *)
(* app/api/v1/votes.py and app/api/v1/answers.py.                          *)
(*                                                                         *)
(* A handler is an operator from the rows its session read (a record D of  *)
(* the tables) to a response [status, db]: db holds the values the session *)
(* would write.  Flush applies the session's dirty columns to the current  *)
(* tables, as the unit of work does at db.commit().                        *)
(***************************************************************************)
EXTENDS Integers, Sequences, FiniteSets, TLC

VARIABLES users, questions, answers, votes, next_answer_id,
          tags, question_tags, comments, next_question_id, next_comment_id,
          notifications, hist, reqs, db0

tables == <<users, questions, answers, votes, next_answer_id,
            tags, question_tags, comments, next_question_id, next_comment_id,
            notifications>>
vars == <<users, questions, answers, votes, next_answer_id,
          tags, question_tags, comments, next_question_id, next_comment_id,
          notifications, hist, reqs, db0>>

(***************************************************************************)
(* Bounds of the model.                                                    *)
(***************************************************************************)
\* reputation_score has no upper limit in the code; a run of the vote engine
\* stops at MaxRep, a run of the acceptance engine at MaxAcceptRep.
MaxRep == 12
MaxAcceptRep == 45
\* The calls a logged session makes, and the reputation its author starts with.
MaxHist == 3
MaxStartRep == 22
MaxFaultCalls == 2
\* The reputation a run of the vote log stops at.
MaxLogRep == 30
\* The calls a logged session of the acceptance endpoints makes.
MaxAcceptCalls == 3
MaxUsage == 2
MaxEnginesCalls == 2

\* The registered users, the ids the answers table hands out, the question.
Users == {1, 2, 3}
AnswerIds == {1, 2}
QuestionIds == {1}
\* The tag names requests carry, and the ids the comments table hands out.
TagNames == {"python", "sql"}
CommentIds == {1, 2}

\* accepted_answer_id is nullable; ids start at 1.
NULL == 0

Max(a, b) == IF a >= b THEN a ELSE b

(***************************************************************************)
(* The tables as one record, the view a session works on.                  *)
(***************************************************************************)
DB == [users |-> users, questions |-> questions, answers |-> answers,
       votes |-> votes, next_answer_id |-> next_answer_id,
       tags |-> tags, question_tags |-> question_tags, comments |-> comments,
       next_question_id |-> next_question_id,
       next_comment_id |-> next_comment_id,
       notifications |-> notifications]

\* Column defaults of the answers table; a deleted or never inserted id
\* holds no row.
NoAnswer == [exists |-> FALSE, question_id |-> NULL, author_id |-> NULL,
             vote_score |-> 0, is_accepted |-> FALSE, comment_count |-> 0]

\* A deleted or never asked question, a tag name no question used yet, a
\* deleted or never written comment.
NoQuestion == [exists |-> FALSE, author_id |-> NULL, is_closed |-> FALSE,
               has_accepted_answer |-> FALSE, accepted_answer_id |-> NULL,
               answer_count |-> 0, vote_score |-> 0]
NoTag == [exists |-> FALSE, usage_count |-> 0]
NoComment == [exists |-> FALSE, answer_id |-> NULL, author_id |-> NULL]

NewAnswer(question_id, author_id) ==
    [exists |-> TRUE, question_id |-> question_id, author_id |-> author_id,
     vote_score |-> 0, is_accepted |-> FALSE, comment_count |-> 0]

Resp(status, D) == [status |-> status, db |-> D]

\* The rows of votes for one (user_id, answer_id), in insertion order.
VoteRows(D, user_id, answer_id) == D.votes[<<user_id, answer_id>>]

(***************************************************************************)
(* services/vote_service.py                                                *)
(***************************************************************************)
\* A changed vote scored as one step instead of two.
ChangedVoteScoreDeltaOneStep(old_is_upvote, is_upvote) ==
    IF old_is_upvote /\ ~is_upvote THEN -1
    ELSE IF ~old_is_upvote /\ is_upvote THEN 1
    ELSE 0

ChangedVoteScoreDelta(old_is_upvote, is_upvote) ==
    IF old_is_upvote /\ ~is_upvote THEN -2
    ELSE IF ~old_is_upvote /\ is_upvote THEN 2
    ELSE 0

ChangedVoteReputationChange(old_is_upvote, is_upvote) ==
    IF old_is_upvote /\ ~is_upvote THEN -20
    ELSE IF ~old_is_upvote /\ is_upvote THEN 20
    ELSE 0

NewVoteScoreDelta(is_upvote) == IF is_upvote THEN 1 ELSE -1

NewVoteReputationChange(is_upvote) == IF is_upvote THEN 10 ELSE -2

RemovedVoteScoreDelta(is_upvote) == IF is_upvote THEN -1 ELSE 1

\* The removal of an upvote charged like the removal of a downvote.
RemovedVoteReputationChangeFlat(is_upvote) == IF is_upvote THEN -2 ELSE 2

RemovedVoteReputationChange(is_upvote) == IF is_upvote THEN -10 ELSE 2

\* The reputation write without its floor.
ApplyReputationChangeNoFloor(D, author_id, reputation_change) ==
    [D EXCEPT !.users[author_id].reputation_score = @ + reputation_change]

\* answer.author.reputation_score = max(0, reputation_score + change),
\* written only when the change is not 0.
ApplyReputationChange(D, author_id, reputation_change) ==
    IF reputation_change # 0
    THEN [D EXCEPT !.users[author_id].reputation_score =
                        Max(0, @ + reputation_change)]
    ELSE D

vote_on_answer(D, current_user, answer_id, is_upvote) ==
    LET answer == D.answers[answer_id]
        rows == VoteRows(D, current_user, answer_id)
    IN
    IF ~answer.exists THEN Resp(404, D)
    ELSE IF answer.author_id = current_user THEN Resp(400, D)
    ELSE IF rows # <<>>
    THEN LET old_is_upvote == rows[1]
             D1 == [D EXCEPT !.votes[<<current_user, answer_id>>][1] = is_upvote,
                             !.answers[answer_id].vote_score =
                                 @ + ChangedVoteScoreDelta(old_is_upvote, is_upvote)]
         IN Resp(200, ApplyReputationChange(D1, answer.author_id,
                          ChangedVoteReputationChange(old_is_upvote, is_upvote)))
    ELSE LET D1 == [D EXCEPT !.votes[<<current_user, answer_id>>] = <<is_upvote>>,
                             !.answers[answer_id].vote_score =
                                 @ + NewVoteScoreDelta(is_upvote)]
         IN Resp(200, ApplyReputationChange(D1, answer.author_id,
                          NewVoteReputationChange(is_upvote)))

\* The removal without its vote-not-found check: a missing vote is taken
\* off the score all the same.
remove_vote_unchecked(D, current_user, answer_id) ==
    LET answer == D.answers[answer_id]
        rows == VoteRows(D, current_user, answer_id)
    IN
    IF ~answer.exists THEN Resp(404, D)
    ELSE IF rows = <<>>
    THEN Resp(200, [D EXCEPT !.answers[answer_id].vote_score = @ - 1])
    ELSE LET D1 == [D EXCEPT !.answers[answer_id].vote_score =
                                 @ + RemovedVoteScoreDelta(rows[1])]
             D2 == ApplyReputationChange(D1, answer.author_id,
                                         RemovedVoteReputationChange(rows[1]))
         IN Resp(200, [D2 EXCEPT !.votes[<<current_user, answer_id>>] = Tail(@)])

remove_vote(D, current_user, answer_id) ==
    LET answer == D.answers[answer_id]
        rows == VoteRows(D, current_user, answer_id)
    IN
    IF ~answer.exists THEN Resp(404, D)
    ELSE IF rows = <<>> THEN Resp(404, D)
    ELSE LET D1 == [D EXCEPT !.answers[answer_id].vote_score =
                                 @ + RemovedVoteScoreDelta(rows[1])]
             D2 == ApplyReputationChange(D1, answer.author_id,
                                         RemovedVoteReputationChange(rows[1]))
         IN Resp(200, [D2 EXCEPT !.votes[<<current_user, answer_id>>] = Tail(@)])

(***************************************************************************)
(* app/auth/dependencies.py: PermissionChecker                             *)
(***************************************************************************)
\* The permission check without the comparison with the author.
can_vote_on_answer_any(D, answer_id, user) == D.answers[answer_id].exists

can_vote_on_answer(D, answer_id, user) ==
    IF ~D.answers[answer_id].exists THEN FALSE
    ELSE user # D.answers[answer_id].author_id

can_accept_answer(D, answer_id, user) ==
    IF ~D.answers[answer_id].exists THEN FALSE
    ELSE user = D.questions[D.answers[answer_id].question_id].author_id
         \/ D.users[user].is_admin

can_edit_answer(D, answer_id, user) ==
    IF ~D.answers[answer_id].exists THEN FALSE
    ELSE user = D.answers[answer_id].author_id \/ D.users[user].is_admin

can_delete_answer(D, answer_id, user) == can_edit_answer(D, answer_id, user)

can_edit_question(D, question_id, user) ==
    IF ~D.questions[question_id].exists THEN FALSE
    ELSE user = D.questions[question_id].author_id \/ D.users[user].is_admin

(***************************************************************************)
(* app/api/v1/votes.py.  A vote id names one row; the model names the row  *)
(* by its (user_id, answer_id) pair.                                       *)
(***************************************************************************)
create_vote(D, current_user, answer_id, is_upvote) ==
    IF ~D.users[current_user].is_verified THEN Resp(403, D)
    ELSE IF ~D.answers[answer_id].exists THEN Resp(404, D)
    ELSE IF ~can_vote_on_answer(D, answer_id, current_user) THEN Resp(403, D)
    ELSE IF VoteRows(D, current_user, answer_id) # <<>> THEN Resp(400, D)
    ELSE Resp(201, [D EXCEPT !.votes[<<current_user, answer_id>>] = <<is_upvote>>,
                             !.answers[answer_id].vote_score =
                                 IF is_upvote THEN @ + 1 ELSE @ - 1])

update_vote(D, current_user, vote_user_id, vote_answer_id, is_upvote) ==
    LET rows == VoteRows(D, vote_user_id, vote_answer_id) IN
    IF rows = <<>> THEN Resp(404, D)
    ELSE IF vote_user_id # current_user THEN Resp(403, D)
    ELSE IF rows[1] # is_upvote
    THEN Resp(200, [D EXCEPT !.answers[vote_answer_id].vote_score =
                                 IF rows[1] /\ ~is_upvote THEN @ - 2
                                 ELSE IF ~rows[1] /\ is_upvote THEN @ + 2
                                 ELSE @,
                             !.votes[<<vote_user_id, vote_answer_id>>][1] = is_upvote])
    ELSE Resp(200, D)

delete_vote(D, current_user, vote_user_id, vote_answer_id) ==
    LET rows == VoteRows(D, vote_user_id, vote_answer_id) IN
    IF rows = <<>> THEN Resp(404, D)
    ELSE IF vote_user_id # current_user THEN Resp(403, D)
    ELSE LET D1 == IF D.answers[vote_answer_id].exists
                   THEN [D EXCEPT !.answers[vote_answer_id].vote_score =
                                      IF rows[1] THEN @ - 1 ELSE @ + 1]
                   ELSE D
         IN Resp(200, [D1 EXCEPT !.votes[<<vote_user_id, vote_answer_id>>] = Tail(@)])

(***************************************************************************)
(* services/answer_service.py                                              *)
(***************************************************************************)
\* The rows Answer.question_id == question_id AND Answer.is_accepted; the
\* query takes .first() of them with no ORDER BY.
AcceptedAnswers(D, question_id) ==
    {a \in AnswerIds : D.answers[a].exists
                       /\ D.answers[a].question_id = question_id
                       /\ D.answers[a].is_accepted}

\* The previous answer unaccepted with its author keeping the 15 points.
UnacceptCurrentKeepRep(D, current_accepted) ==
    IF current_accepted # NULL
    THEN [D EXCEPT !.answers[current_accepted].is_accepted = FALSE]
    ELSE D

\* current_accepted is the row .first() returned, NULL when there is none.
UnacceptCurrent(D, current_accepted) ==
    IF current_accepted # NULL
    THEN [D EXCEPT !.answers[current_accepted].is_accepted = FALSE,
                   !.users[D.answers[current_accepted].author_id].reputation_score =
                       Max(0, @ - 15)]
    ELSE D

\* The award of 15 given to the author of the question.
AcceptNewAwardsAsker(D, answer_id) ==
    LET answer == D.answers[answer_id] IN
    [D EXCEPT !.answers[answer_id].is_accepted = TRUE,
              !.questions[answer.question_id].has_accepted_answer = TRUE,
              !.questions[answer.question_id].accepted_answer_id = answer_id,
              !.users[D.questions[answer.question_id].author_id].reputation_score =
                  @ + 15]

AcceptNew(D, answer_id) ==
    LET answer == D.answers[answer_id] IN
    [D EXCEPT !.answers[answer_id].is_accepted = TRUE,
              !.questions[answer.question_id].has_accepted_answer = TRUE,
              !.questions[answer.question_id].accepted_answer_id = answer_id,
              !.users[answer.author_id].reputation_score = @ + 15]

accept_answer(D, current_user, answer_id, current_accepted) ==
    LET answer == D.answers[answer_id] IN
    IF ~answer.exists THEN Resp(404, D)
    ELSE LET question == D.questions[answer.question_id] IN
         IF question.author_id # current_user THEN Resp(403, D)
         ELSE IF question.is_closed THEN Resp(400, D)
         ELSE LET D1 == IF question.has_accepted_answer
                        THEN UnacceptCurrent(D, current_accepted)
                        ELSE D
              IN Resp(200, AcceptNew(D1, answer_id))

\* The answer posted without the question's answer_count += 1.
create_answer_no_count(D, current_user, question_id) ==
    IF ~D.questions[question_id].exists THEN Resp(404, D)
    ELSE IF D.questions[question_id].is_closed THEN Resp(400, D)
    ELSE Resp(201, [D EXCEPT
             !.answers[D.next_answer_id] = NewAnswer(question_id, current_user),
             !.next_answer_id = @ + 1,
             !.users[current_user].answers_count = @ + 1])

create_answer(D, current_user, question_id) ==
    IF ~D.questions[question_id].exists THEN Resp(404, D)
    ELSE IF D.questions[question_id].is_closed THEN Resp(400, D)
    ELSE Resp(201, [D EXCEPT
             !.answers[D.next_answer_id] = NewAnswer(question_id, current_user),
             !.next_answer_id = @ + 1,
             !.questions[question_id].answer_count = @ + 1,
             !.users[current_user].answers_count = @ + 1])

(***************************************************************************)
(* utils/notification.py and the hand-off of services create_answer        *)
(***************************************************************************)
\* The kinds of notification create_answer sends.
NotificationKinds == {"answer_to_question", "mention"}

\* db.add(notification); db.commit(), or, when it fails, db.rollback() and
\* the exception goes to the caller.
create_database_notification(D, user_id, notification_type, triggered_by_user_id, related_question_id, related_answer_id, failing) ==
    IF notification_type \in failing THEN D
    ELSE [D EXCEPT !.notifications = Append(@,
              [user_id |-> user_id, notification_type |-> notification_type,
               triggered_by_user_id |-> triggered_by_user_id,
               related_question_id |-> related_question_id,
               related_answer_id |-> related_answer_id])]

\* Nothing for a missing question or the asker's own answer; the exception
\* of a failed notification is logged here.
notify_answer_to_question(D, question_id, answer_author_id, failing) ==
    IF ~D.questions[question_id].exists
       \/ D.questions[question_id].author_id = answer_author_id
    THEN D
    ELSE create_database_notification(D, D.questions[question_id].author_id,
             "answer_to_question", answer_author_id, question_id, NULL, failing)

\* Nothing for a self-mention; the exception of a failed notification is
\* logged here.
notify_mention(D, mentioned, mentioning_user_id, related_question_id, related_answer_id, failing) ==
    IF mentioned = mentioning_user_id THEN D
    ELSE create_database_notification(D, mentioned, "mention", mentioning_user_id,
             related_question_id, related_answer_id, failing)

RECURSIVE NotifyMentions(_, _, _, _, _, _)
NotifyMentions(D, mentions, mentioning_user_id, question_id, answer_id, failing) ==
    IF mentions = {} THEN D
    ELSE LET m == CHOOSE x \in mentions : \A y \in mentions : x <= y
         IN NotifyMentions(notify_mention(D, m, mentioning_user_id, question_id,
                                          answer_id, failing),
                           mentions \ {m}, mentioning_user_id, question_id,
                           answer_id, failing)

\* The hand-off inside the core transaction: a failed notification fails the
\* request and the answer is rolled back with it.
create_answer_notifying_in_transaction(D, current_user, question_id, mentions, failing) ==
    LET r == create_answer(D, current_user, question_id)
        D1 == notify_answer_to_question(r.db, question_id, current_user, failing)
        D2 == NotifyMentions(D1, mentions, current_user, question_id,
                             D.next_answer_id, failing)
        sent == Len(D2.notifications) - Len(D.notifications)
        due == Cardinality(mentions \ {current_user})
               + (IF D.questions[question_id].author_id = current_user THEN 0 ELSE 1)
    IN IF r.status # 201 THEN r
       ELSE IF sent < due THEN Resp(500, D)
       ELSE Resp(201, D2)

\* create_answer with what follows its db.commit(): the answer, answer_count
\* and answers_count are committed, then notify_answer_to_question and one
\* notify_mention per @username run in a try block of their own, then the
\* response is built.
create_answer_notifying(D, current_user, question_id, mentions, failing) ==
    LET r == create_answer(D, current_user, question_id)
        D1 == notify_answer_to_question(r.db, question_id, current_user, failing)
        D2 == NotifyMentions(D1, mentions, current_user, question_id,
                             D.next_answer_id, failing)
    IN IF r.status # 201 THEN r ELSE Resp(201, D2)

(***************************************************************************)
(* app/api/v1/answers.py                                                   *)
(***************************************************************************)
api_create_answer(D, current_user, question_id) ==
    IF ~D.users[current_user].is_verified THEN Resp(403, D)
    ELSE create_answer(D, current_user, question_id)

api_accept_answer(D, current_user, answer_id, is_accepted) ==
    LET answer == D.answers[answer_id] IN
    IF ~answer.exists THEN Resp(404, D)
    ELSE IF ~can_accept_answer(D, answer_id, current_user) THEN Resp(403, D)
    ELSE LET q == answer.question_id
             old == D.questions[q].accepted_answer_id
         IN
         IF is_accepted
         THEN LET D1 == IF old # NULL /\ D.answers[old].exists
                        THEN [D EXCEPT !.answers[old].is_accepted = FALSE]
                        ELSE D
              IN Resp(200, [D1 EXCEPT !.answers[answer_id].is_accepted = TRUE,
                                      !.questions[q].accepted_answer_id = answer_id,
                                      !.questions[q].has_accepted_answer = TRUE])
         ELSE Resp(200, [D EXCEPT !.answers[answer_id].is_accepted = FALSE,
                                  !.questions[q].accepted_answer_id = NULL,
                                  !.questions[q].has_accepted_answer = FALSE])

\* db.delete(answer): the votes, comments and notifications of the answer go
\* with it (cascade), and the foreign key questions.accepted_answer_id is
\* ON DELETE SET NULL.
DeleteAnswerRow(D, answer_id) ==
    [D EXCEPT !.answers[answer_id] = NoAnswer,
              !.notifications =
                  LET Kept(n) == n.related_answer_id # answer_id
                  IN SelectSeq(@, Kept),
              !.votes = [p \in DOMAIN @ |-> IF p[2] = answer_id THEN <<>> ELSE @[p]],
              !.comments = [c \in DOMAIN @ |->
                              IF @[c].answer_id = answer_id THEN NoComment
                              ELSE @[c]],
              !.questions = [q \in DOMAIN @ |->
                               IF @[q].accepted_answer_id = answer_id
                               THEN [@[q] EXCEPT !.accepted_answer_id = NULL]
                               ELSE @[q]]]

\* The deletion without the acceptance cleanup of the question.
delete_answer_no_cleanup(D, current_user, answer_id) ==
    LET answer == D.answers[answer_id] IN
    IF ~answer.exists THEN Resp(404, D)
    ELSE IF ~can_delete_answer(D, answer_id, current_user) THEN Resp(403, D)
    ELSE LET q == answer.question_id
             D2 == [D EXCEPT !.questions[q].answer_count = Max(0, @ - 1),
                             !.users[answer.author_id].answers_count = Max(0, @ - 1)]
         IN Resp(200, DeleteAnswerRow(D2, answer_id))

delete_answer(D, current_user, answer_id) ==
    LET answer == D.answers[answer_id] IN
    IF ~answer.exists THEN Resp(404, D)
    ELSE IF ~can_delete_answer(D, answer_id, current_user) THEN Resp(403, D)
    ELSE LET q == answer.question_id
             D1 == IF answer.is_accepted
                   THEN [D EXCEPT !.questions[q].accepted_answer_id = NULL,
                                  !.questions[q].has_accepted_answer = FALSE]
                   ELSE D
             D2 == [D1 EXCEPT !.questions[q].answer_count = Max(0, @ - 1),
                              !.users[answer.author_id].answers_count = Max(0, @ - 1)]
         IN Resp(200, DeleteAnswerRow(D2, answer_id))

(***************************************************************************)
(* app/api/v1/questions.py.  Of the fields the update carries the model    *)
(* keeps is_closed.                                                        *)
(***************************************************************************)
update_question(D, current_user, question_id, is_closed) ==
    IF ~D.questions[question_id].exists THEN Resp(404, D)
    ELSE IF ~can_edit_question(D, question_id, current_user) THEN Resp(403, D)
    ELSE Resp(200, [D EXCEPT !.questions[question_id].is_closed = is_closed])

\* The tag-set update of the same handler: the QuestionTag rows of the
\* question are deleted with one bulk DELETE, then every name of tag_names
\* gets its tag (created with usage_count 0 when new), a QuestionTag row
\* and usage_count += 1.
UseTags(D, question_id, tag_names) ==
    [D EXCEPT !.tags = [t \in TagNames |->
                          IF t \in tag_names
                          THEN [exists |-> TRUE, usage_count |-> @[t].usage_count + 1]
                          ELSE @[t]],
              !.question_tags = @ \union {<<question_id, t>> : t \in tag_names}]

can_delete_question(D, question_id, user) == can_edit_question(D, question_id, user)

update_question_tags(D, current_user, question_id, tag_names) ==
    IF ~D.questions[question_id].exists THEN Resp(404, D)
    ELSE IF ~can_edit_question(D, question_id, current_user) THEN Resp(403, D)
    ELSE LET D1 == [D EXCEPT !.question_tags =
                                 {p \in @ : p[1] # question_id}]
         IN Resp(200, UseTags(D1, question_id, tag_names))

api_create_question(D, current_user, tag_names) ==
    IF ~D.users[current_user].is_verified THEN Resp(403, D)
    ELSE LET q == D.next_question_id
             D1 == [D EXCEPT !.questions[q] =
                                 [NoQuestion EXCEPT !.exists = TRUE,
                                                    !.author_id = current_user],
                             !.next_question_id = @ + 1,
                             !.users[current_user].questions_count = @ + 1]
         IN Resp(201, UseTags(D1, q, tag_names))

\* db.delete(question): its QuestionTag rows and its answers go with it
\* (cascade), the answers with their votes and comments.
RECURSIVE DeleteAnswerRows(_, _)
DeleteAnswerRows(D, S) ==
    IF S = {} THEN D
    ELSE LET a == CHOOSE x \in S : TRUE
         IN DeleteAnswerRows(DeleteAnswerRow(D, a), S \ {a})

DeleteQuestionRow(D, question_id) ==
    LET D1 == DeleteAnswerRows(D, {a \in AnswerIds :
                                     D.answers[a].exists
                                     /\ D.answers[a].question_id = question_id})
    IN [D1 EXCEPT !.questions[question_id] = NoQuestion,
                  !.question_tags = {p \in @ : p[1] # question_id},
                  !.notifications =
                      LET Kept(n) == n.related_question_id # question_id
                      IN SelectSeq(@, Kept)]

delete_question(D, current_user, question_id) ==
    IF ~D.questions[question_id].exists THEN Resp(404, D)
    ELSE IF ~can_delete_question(D, question_id, current_user) THEN Resp(403, D)
    ELSE LET author == D.questions[question_id].author_id
             D1 == [D EXCEPT !.users[author].questions_count = Max(0, @ - 1)]
         IN Resp(200, DeleteQuestionRow(D1, question_id))

(***************************************************************************)
(* services/question_service.py                                            *)
(***************************************************************************)
\* get_or_create_tags and create_question.
create_question(D, current_user, tag_names) ==
    LET q == D.next_question_id
        D1 == [UseTags(D, q, tag_names) EXCEPT
                  !.questions[q] = [NoQuestion EXCEPT !.exists = TRUE,
                                                     !.author_id = current_user],
                  !.next_question_id = @ + 1,
                  !.users[current_user].questions_count = @ + 1]
    IN Resp(201, D1)

(***************************************************************************)
(* app/api/v1/comments.py                                                  *)
(***************************************************************************)
can_edit_comment(D, comment_id, user) ==
    IF ~D.comments[comment_id].exists THEN FALSE
    ELSE user = D.comments[comment_id].author_id \/ D.users[user].is_admin

can_delete_comment(D, comment_id, user) == can_edit_comment(D, comment_id, user)

\* The comment posted without the answer's comment_count += 1.
create_comment_no_count(D, current_user, answer_id) ==
    IF ~D.users[current_user].is_verified THEN Resp(403, D)
    ELSE IF ~D.answers[answer_id].exists THEN Resp(404, D)
    ELSE Resp(201, [D EXCEPT
             !.comments[D.next_comment_id] =
                 [exists |-> TRUE, answer_id |-> answer_id,
                  author_id |-> current_user],
             !.next_comment_id = @ + 1])

create_comment(D, current_user, answer_id) ==
    IF ~D.users[current_user].is_verified THEN Resp(403, D)
    ELSE IF ~D.answers[answer_id].exists THEN Resp(404, D)
    ELSE Resp(201, [D EXCEPT
             !.comments[D.next_comment_id] =
                 [exists |-> TRUE, answer_id |-> answer_id,
                  author_id |-> current_user],
             !.next_comment_id = @ + 1,
             !.answers[answer_id].comment_count = @ + 1])

delete_comment(D, current_user, comment_id) ==
    IF ~D.comments[comment_id].exists THEN Resp(404, D)
    ELSE IF ~can_delete_comment(D, comment_id, current_user) THEN Resp(403, D)
    ELSE LET answer_id == D.comments[comment_id].answer_id
         IN Resp(200, [D EXCEPT
                  !.answers[answer_id].comment_count = Max(0, @ - 1),
                  !.comments[comment_id] = NoComment])

(***************************************************************************)
(* The unit of work.  A session holds the rows as it read them (snap) and  *)
(* as the handler left them (new); db.commit() flushes every dirty column  *)
(* with the value the handler computed (UPDATE .. SET col = value), the    *)
(* pending INSERTs and DELETEs, and commits.  cur is the committed state   *)
(* at that moment.  No handler takes a row lock before it reads            *)
(* (database.py: sessionmaker(autocommit=False, autoflush=False)).         *)
(***************************************************************************)
DirtyCol(c, s, n) == IF n # s THEN n ELSE c

FlushUsers(cur, snap, new) ==
    [u \in Users |->
        [cur.users[u] EXCEPT
            !.reputation_score = DirtyCol(@, snap.users[u].reputation_score,
                                             new.users[u].reputation_score),
            !.answers_count = DirtyCol(@, snap.users[u].answers_count,
                                          new.users[u].answers_count)]]

FlushQuestions(cur, snap, new) ==
    [q \in QuestionIds |->
        [cur.questions[q] EXCEPT
            !.has_accepted_answer = DirtyCol(@, snap.questions[q].has_accepted_answer,
                                                new.questions[q].has_accepted_answer),
            !.accepted_answer_id = DirtyCol(@, snap.questions[q].accepted_answer_id,
                                               new.questions[q].accepted_answer_id),
            !.answer_count = DirtyCol(@, snap.questions[q].answer_count,
                                         new.questions[q].answer_count),
            !.is_closed = DirtyCol(@, snap.questions[q].is_closed,
                                      new.questions[q].is_closed)]]

\* Answers the session updates, deletes and inserts.
UpdatedAnswers(snap, new) ==
    {a \in AnswerIds : snap.answers[a].exists /\ new.answers[a].exists
                       /\ new.answers[a] # snap.answers[a]}

DeletedAnswers(snap, new) ==
    {a \in AnswerIds : snap.answers[a].exists /\ ~new.answers[a].exists}

InsertedAnswers(snap, new) ==
    {a \in AnswerIds : ~snap.answers[a].exists /\ new.answers[a].exists}

FlushAnswers(cur, snap, new) ==
    [a \in AnswerIds |->
        IF a \in UpdatedAnswers(snap, new)
        THEN [cur.answers[a] EXCEPT
                 !.vote_score = DirtyCol(@, snap.answers[a].vote_score,
                                            new.answers[a].vote_score),
                 !.is_accepted = DirtyCol(@, snap.answers[a].is_accepted,
                                             new.answers[a].is_accepted)]
        ELSE IF a = cur.next_answer_id /\ InsertedAnswers(snap, new) # {}
        THEN new.answers[CHOOSE i \in InsertedAnswers(snap, new) : TRUE]
        ELSE cur.answers[a]]

\* Vote rows the session inserts, updates in place and deletes.
InsertedVotes(snap, new) ==
    {p \in DOMAIN snap.votes : snap.votes[p] = <<>> /\ new.votes[p] # <<>>}

UpdatedVotes(snap, new) ==
    {p \in DOMAIN snap.votes : snap.votes[p] # <<>> /\ new.votes[p] # <<>>
                               /\ new.votes[p] # snap.votes[p]}

DeletedVotes(snap, new) ==
    {p \in DOMAIN snap.votes : snap.votes[p] # <<>> /\ new.votes[p] = <<>>}

FlushVotes(cur, snap, new) ==
    [p \in DOMAIN cur.votes |->
        IF p \in InsertedVotes(snap, new) \union UpdatedVotes(snap, new)
        THEN new.votes[p]
        ELSE IF p \in DeletedVotes(snap, new) THEN <<>>
        ELSE cur.votes[p]]

\* The flush raises (and the handler rolls back) on a second row for a
\* (user_id, answer_id) pair (uq_user_answer_vote), on a vote for an answer
\* that is gone (foreign key), and on an UPDATE that matches no row
\* (StaleDataError).
FlushRaises(cur, snap, new) ==
    \/ \E p \in InsertedVotes(snap, new) :
          cur.votes[p] # <<>> \/ ~cur.answers[p[2]].exists
    \/ \E p \in UpdatedVotes(snap, new) : cur.votes[p] = <<>>
    \/ \E a \in UpdatedAnswers(snap, new) : ~cur.answers[a].exists

Flush(cur, snap, new) ==
    LET D1 == [cur EXCEPT
               !.users = FlushUsers(cur, snap, new),
               !.questions = FlushQuestions(cur, snap, new),
               !.answers = FlushAnswers(cur, snap, new),
               !.votes = FlushVotes(cur, snap, new),
               !.next_answer_id = IF InsertedAnswers(snap, new) # {}
                                  THEN cur.next_answer_id + 1
                                  ELSE cur.next_answer_id]
        Del == DeletedAnswers(snap, new)
        D2 == IF Del # {} THEN DeleteAnswerRow(D1, CHOOSE a \in Del : TRUE) ELSE D1
    IN IF FlushRaises(cur, snap, new) THEN [ok |-> FALSE, db |-> cur]
       ELSE [ok |-> TRUE, db |-> D2]

\* The same unit of work with the content columns and rows: the dirty
\* questions_count, comment_count and usage_count, the inserted and deleted
\* comments, the QuestionTag rows of a retagged question (the bulk DELETE
\* removes the rows the request saw, the INSERTs add the new ones) and the
\* deleted question, whose rows go by ON DELETE CASCADE.
InsertedComments(snap, new) ==
    {c \in CommentIds : ~snap.comments[c].exists /\ new.comments[c].exists}

DeletedComments(snap, new) ==
    {c \in CommentIds : snap.comments[c].exists /\ ~new.comments[c].exists}

DeletedQuestions(snap, new) ==
    {q \in QuestionIds : snap.questions[q].exists /\ ~new.questions[q].exists}

Retagged(snap, new) ==
    new.tags # snap.tags \/ new.question_tags # snap.question_tags

\* The flush raises on an UPDATE of a question that is gone (StaleDataError),
\* on an answer for a question that is gone and a comment for an answer that
\* is gone (foreign keys), on a second tag of one name and on a second
\* QuestionTag row of one pair (unique constraints).
FlushContentRaises(cur, snap, new) ==
    \/ FlushRaises(cur, snap, new)
    \/ \E q \in QuestionIds :
          /\ snap.questions[q].exists /\ new.questions[q].exists
          /\ new.questions[q] # snap.questions[q]
          /\ ~cur.questions[q].exists
    \/ \E a \in InsertedAnswers(snap, new) :
          ~cur.questions[new.answers[a].question_id].exists
    \/ \E c \in InsertedComments(snap, new) :
          ~cur.answers[new.comments[c].answer_id].exists
    \/ \E t \in TagNames :
          ~snap.tags[t].exists /\ new.tags[t].exists /\ cur.tags[t].exists
    \/ /\ Retagged(snap, new)
       /\ \/ new.question_tags \cap (cur.question_tags \ snap.question_tags) # {}
          \/ \E p \in new.question_tags : ~cur.questions[p[1]].exists

FlushContent(cur, snap, new) ==
    LET D1 == Flush(cur, snap, new).db
        D2 == [D1 EXCEPT
                 !.users = [u \in Users |->
                     [@[u] EXCEPT !.questions_count =
                         DirtyCol(@, snap.users[u].questions_count,
                                     new.users[u].questions_count)]],
                 !.answers = [a \in AnswerIds |->
                     IF a \in UpdatedAnswers(snap, new) /\ @[a].exists
                     THEN [@[a] EXCEPT !.comment_count =
                              DirtyCol(@, snap.answers[a].comment_count,
                                          new.answers[a].comment_count)]
                     ELSE @[a]],
                 !.comments = [c \in CommentIds |->
                     IF c \in DeletedComments(snap, new) THEN NoComment
                     ELSE IF c = cur.next_comment_id
                             /\ InsertedComments(snap, new) # {}
                     THEN new.comments[CHOOSE i \in InsertedComments(snap, new) : TRUE]
                     ELSE @[c]],
                 !.next_comment_id = IF InsertedComments(snap, new) # {}
                                     THEN @ + 1 ELSE @,
                 !.tags = [t \in TagNames |->
                     IF new.tags[t] # snap.tags[t]
                     THEN [exists |-> TRUE,
                           usage_count |-> DirtyCol(@[t].usage_count,
                                                    snap.tags[t].usage_count,
                                                    new.tags[t].usage_count)]
                     ELSE @[t]],
                 !.question_tags = IF Retagged(snap, new)
                                   THEN (@ \ snap.question_tags)
                                        \union new.question_tags
                                   ELSE @]
        Del == DeletedQuestions(snap, new)
        D3 == IF Del # {} THEN DeleteQuestionRow(D2, CHOOSE q \in Del : TRUE) ELSE D2
    IN IF FlushContentRaises(cur, snap, new) THEN [ok |-> FALSE, db |-> cur]
       ELSE [ok |-> TRUE, db |-> D3]

(***************************************************************************)
(* Set-up.  The registered users (user 3 is an admin), one open question   *)
(* asked by user 1, and the state create_answer leaves after the answers   *)
(* of the given authors were posted: no votes, nothing accepted, every     *)
(* score at its column default.                                            *)
(***************************************************************************)
AdminUsers == {3}

InitUsers ==
    [u \in Users |-> [reputation_score |-> 0, answers_count |-> 0,
                      questions_count |-> IF u = 1 THEN 1 ELSE 0,
                      is_verified |-> TRUE, is_admin |-> u \in AdminUsers]]

InitQuestions ==
    [q \in QuestionIds |-> [exists |-> TRUE, author_id |-> 1,
                            is_closed |-> FALSE,
                            has_accepted_answer |-> FALSE,
                            accepted_answer_id |-> NULL, answer_count |-> 0,
                            vote_score |-> 0]]

NoVotes == [p \in Users \X AnswerIds |-> <<>>]

EmptyDB == [users |-> InitUsers, questions |-> InitQuestions,
            answers |-> [a \in AnswerIds |-> NoAnswer],
            votes |-> NoVotes, next_answer_id |-> 1,
            tags |-> [t \in TagNames |-> NoTag], question_tags |-> {},
            comments |-> [c \in CommentIds |-> NoComment],
            next_question_id |-> 2, next_comment_id |-> 1,
            notifications |-> <<>>]

\* authors is the sequence of the authors of answers 1, 2, .. of question 1.
RECURSIVE Posted(_)
Posted(authors) ==
    IF authors = <<>> THEN EmptyDB
    ELSE create_answer(Posted(SubSeq(authors, 1, Len(authors) - 1)),
                       authors[Len(authors)], 1).db

\* The tables hold D.
TablesAre(D) ==
    /\ users = D.users
    /\ questions = D.questions
    /\ answers = D.answers
    /\ votes = D.votes
    /\ next_answer_id = D.next_answer_id
    /\ tags = D.tags
    /\ question_tags = D.question_tags
    /\ comments = D.comments
    /\ next_question_id = D.next_question_id
    /\ next_comment_id = D.next_comment_id
    /\ notifications = D.notifications

\* The tables take the values of D.
Install(D) ==
    /\ users' = D.users
    /\ questions' = D.questions
    /\ answers' = D.answers
    /\ votes' = D.votes
    /\ next_answer_id' = D.next_answer_id
    /\ tags' = D.tags
    /\ question_tags' = D.question_tags
    /\ comments' = D.comments
    /\ next_question_id' = D.next_question_id
    /\ next_comment_id' = D.next_comment_id
    /\ notifications' = D.notifications

WithinBounds(D, max) == \A u \in Users : D.users[u].reputation_score <= max

\* A request served alone runs from its reads to its commit; nothing is
\* logged and no other request is in flight.
Commit(D) ==
    /\ Install(D)
    /\ UNCHANGED <<hist, reqs, db0>>

(***************************************************************************)
(* The vote engine: both endpoint families on the answers of question 1.   *)
(* Answer 1 is by user 2, answer 2 by user 2 or by user 3.                 *)
(***************************************************************************)
Init ==
    /\ \E author2 \in {2, 3} : TablesAre(Posted(<<2, author2>>))
    /\ hist = <<>>
    /\ reqs = <<>>
    /\ db0 = EmptyDB

VoteOnAnswer ==
    \E u \in Users, a \in AnswerIds, up \in BOOLEAN :
        LET r == vote_on_answer(DB, u, a, up) IN
        /\ WithinBounds(r.db, MaxRep)
        /\ Commit(r.db)

RemoveVote ==
    \E u \in Users, a \in AnswerIds :
        LET r == remove_vote(DB, u, a) IN
        /\ WithinBounds(r.db, MaxRep)
        /\ Commit(r.db)

CreateVote ==
    \E u \in Users, a \in AnswerIds, up \in BOOLEAN :
        LET r == create_vote(DB, u, a, up) IN
        /\ WithinBounds(r.db, MaxRep)
        /\ Commit(r.db)

UpdateVote ==
    \E u \in Users, o \in Users, a \in AnswerIds, up \in BOOLEAN :
        LET r == update_vote(DB, u, o, a, up) IN
        /\ WithinBounds(r.db, MaxRep)
        /\ Commit(r.db)

DeleteVote ==
    \E u \in Users, o \in Users, a \in AnswerIds :
        LET r == delete_vote(DB, u, o, a) IN
        /\ WithinBounds(r.db, MaxRep)
        /\ Commit(r.db)

Next ==
    \/ VoteOnAnswer
    \/ RemoveVote
    \/ CreateVote
    \/ UpdateVote
    \/ DeleteVote

Spec == Init /\ [][Next]_vars

(***************************************************************************)
(* The acceptance engine: accept_answer of the services and the accept     *)
(* toggle of app/api on the two answers of question 1.                     *)
(***************************************************************************)
\* The choices .first() has among the accepted answers of the question of answer_id.
FirstAccepted(D, answer_id) ==
    IF D.answers[answer_id].exists
       /\ AcceptedAnswers(D, D.answers[answer_id].question_id) # {}
    THEN AcceptedAnswers(D, D.answers[answer_id].question_id)
    ELSE {NULL}

AcceptAnswer ==
    \E u \in Users, a \in AnswerIds :
        \E c \in FirstAccepted(DB, a) :
            LET r == accept_answer(DB, u, a, c) IN
            /\ WithinBounds(r.db, MaxAcceptRep)
            /\ Commit(r.db)

ApiAcceptAnswer ==
    \E u \in Users, a \in AnswerIds, acc \in BOOLEAN :
        LET r == api_accept_answer(DB, u, a, acc) IN
        /\ WithinBounds(r.db, MaxAcceptRep)
        /\ Commit(r.db)

NextAccept ==
    \/ AcceptAnswer
    \/ ApiAcceptAnswer

SpecAccept == Init /\ [][NextAccept]_vars

(***************************************************************************)
(* A logged session of the services vote endpoints on answer 1 (by user    *)
(* 2), whose author starts at any reputation: hist holds the calls made,   *)
(* each with its response status and the rows before it.                   *)
(***************************************************************************)
Call(op, user, answer_id, is_upvote, status) ==
    [op |-> op, user |-> user, answer_id |-> answer_id, is_upvote |-> is_upvote,
     status |-> status, pre |-> DB]

InitHist ==
    /\ \E r \in 0..MaxStartRep :
          TablesAre([Posted(<<2>>) EXCEPT !.users[2].reputation_score = r])
    /\ hist = <<>>
    /\ reqs = <<>>
    /\ db0 = EmptyDB

HistVoteOnAnswer ==
    \E u \in Users, up \in BOOLEAN :
        LET r == vote_on_answer(DB, u, 1, up) IN
        /\ Len(hist) < MaxHist
        /\ Install(r.db)
        /\ hist' = Append(hist, Call("vote_on_answer", u, 1, up, r.status))
        /\ UNCHANGED <<reqs, db0>>

HistRemoveVote ==
    \E u \in Users :
        LET r == remove_vote(DB, u, 1) IN
        /\ Len(hist) < MaxHist
        /\ Install(r.db)
        /\ hist' = Append(hist, Call("remove_vote", u, 1, FALSE, r.status))
        /\ UNCHANGED <<reqs, db0>>

NextHist ==
    \/ HistVoteOnAnswer
    \/ HistRemoveVote

SpecHist == InitHist /\ [][NextHist]_vars

\* The rows after call i of the log.
After(i) == IF i = Len(hist) THEN DB ELSE hist[i + 1].pre

\* The author's reputation and the answer's score in the rows D, for the
\* answer of call c.
AuthorRep(D, c) == D.users[D.answers[c.answer_id].author_id].reputation_score
Score(D, c) == D.answers[c.answer_id].vote_score

\* Call i casts is_upvote where its user, not the author, held no vote.
IsNewVote(i, is_upvote) ==
    /\ hist[i].op = "vote_on_answer"
    /\ hist[i].is_upvote = is_upvote
    /\ hist[i].user # hist[i].pre.answers[hist[i].answer_id].author_id
    /\ VoteRows(hist[i].pre, hist[i].user, hist[i].answer_id) = <<>>

\* Call j is made by the user of call i on the same answer.
SameVoter(i, j) ==
    hist[j].user = hist[i].user /\ hist[j].answer_id = hist[i].answer_id

(***************************************************************************)
(* The vote log: the vote endpoints of both families on answer 1 (by user  *)
(* 2, accepted or not), any number of calls; hist holds the last call: its *)
(* arguments, its response status and the rows before it.  owner is the    *)
(* user_id of the row a vote id names (update_vote, delete_vote), and the  *)
(* caller for the endpoints that take the answer id.                       *)
(***************************************************************************)
CallOn(op, user, owner, answer_id, is_upvote, status) ==
    [op |-> op, user |-> user, owner |-> owner, answer_id |-> answer_id,
     is_upvote |-> is_upvote, status |-> status, pre |-> DB]

InitVoteLog ==
    /\ \E accepted \in BOOLEAN :
          TablesAre(IF accepted
                    THEN accept_answer(Posted(<<2>>), 1, 1, NULL).db
                    ELSE Posted(<<2>>))
    /\ hist = <<>>
    /\ reqs = <<>>
    /\ db0 = EmptyDB

LogVoteOnAnswer ==
    \E u \in Users, up \in BOOLEAN :
        LET r == vote_on_answer(DB, u, 1, up) IN
        /\ WithinBounds(r.db, MaxLogRep)
        /\ Install(r.db)
        /\ hist' = <<CallOn("vote_on_answer", u, u, 1, up, r.status)>>
        /\ UNCHANGED <<reqs, db0>>

LogRemoveVote ==
    \E u \in Users :
        LET r == remove_vote(DB, u, 1) IN
        /\ WithinBounds(r.db, MaxLogRep)
        /\ Install(r.db)
        /\ hist' = <<CallOn("remove_vote", u, u, 1, FALSE, r.status)>>
        /\ UNCHANGED <<reqs, db0>>

LogCreateVote ==
    \E u \in Users, up \in BOOLEAN :
        LET r == create_vote(DB, u, 1, up) IN
        /\ WithinBounds(r.db, MaxLogRep)
        /\ Install(r.db)
        /\ hist' = <<CallOn("create_vote", u, u, 1, up, r.status)>>
        /\ UNCHANGED <<reqs, db0>>

LogUpdateVote ==
    \E u \in Users, o \in Users, up \in BOOLEAN :
        LET r == update_vote(DB, u, o, 1, up) IN
        /\ WithinBounds(r.db, MaxLogRep)
        /\ Install(r.db)
        /\ hist' = <<CallOn("update_vote", u, o, 1, up, r.status)>>
        /\ UNCHANGED <<reqs, db0>>

LogDeleteVote ==
    \E u \in Users, o \in Users :
        LET r == delete_vote(DB, u, o, 1) IN
        /\ WithinBounds(r.db, MaxLogRep)
        /\ Install(r.db)
        /\ hist' = <<CallOn("delete_vote", u, o, 1, FALSE, r.status)>>
        /\ UNCHANGED <<reqs, db0>>

NextVoteLog ==
    \/ LogVoteOnAnswer
    \/ LogRemoveVote
    \/ LogCreateVote
    \/ LogUpdateVote
    \/ LogDeleteVote

SpecVoteLog == InitVoteLog /\ [][NextVoteLog]_vars

\* The last call is one of ops, made with a vote of its caller in view.
LastIs(ops) ==
    /\ hist # <<>>
    /\ hist[1].op \in ops
    /\ hist[1].owner = hist[1].user

\* The rows of the caller of the last call on its answer, before the call
\* and now.
RowsBefore == VoteRows(hist[1].pre, hist[1].user, hist[1].answer_id)
RowsNow == VoteRows(DB, hist[1].user, hist[1].answer_id)

\* The last call left the rows of every other (user, answer) pair alone.
OtherRowsKept ==
    \A p \in Users \X AnswerIds :
        p # <<hist[1].user, hist[1].answer_id>> => votes[p] = hist[1].pre.votes[p]

\* The last call left vote rows, counters and reputations as they were.
NothingChanged == DB = hist[1].pre

(***************************************************************************)
(* The acceptance log: a session of at most MaxAcceptCalls calls on        *)
(* question 1 (by user 1) and its two answers: accept_answer of the        *)
(* services, the accept toggle of app/api, update_question closing or      *)
(* reopening the question, and votes of user 1, which move the authors'    *)
(* reputations.  hist holds every call; arg is the boolean the request     *)
(* carries (is_accepted, is_closed, is_upvote).                            *)
(***************************************************************************)
LogCall(op, user, answer_id, arg, status) ==
    [op |-> op, user |-> user, answer_id |-> answer_id, arg |-> arg,
     status |-> status, pre |-> DB]

InitAcceptLog ==
    /\ \E author2 \in {2, 3} : TablesAre(Posted(<<2, author2>>))
    /\ hist = <<>>
    /\ reqs = <<>>
    /\ db0 = EmptyDB

LogAcceptAnswer ==
    \E u \in Users, a \in AnswerIds :
        \E c \in FirstAccepted(DB, a) :
            LET r == accept_answer(DB, u, a, c) IN
            /\ Len(hist) < MaxAcceptCalls
            /\ Install(r.db)
            /\ hist' = Append(hist, LogCall("accept_answer", u, a, TRUE, r.status))
            /\ UNCHANGED <<reqs, db0>>

LogApiAcceptAnswer ==
    \E u \in Users, a \in AnswerIds, acc \in BOOLEAN :
        LET r == api_accept_answer(DB, u, a, acc) IN
        /\ Len(hist) < MaxAcceptCalls
        /\ Install(r.db)
        /\ hist' = Append(hist, LogCall("api_accept_answer", u, a, acc, r.status))
        /\ UNCHANGED <<reqs, db0>>

LogUpdateQuestion ==
    \E u \in Users, q \in QuestionIds, closed \in BOOLEAN :
        LET r == update_question(DB, u, q, closed) IN
        /\ Len(hist) < MaxAcceptCalls
        /\ Install(r.db)
        /\ hist' = Append(hist, LogCall("update_question", u, NULL, closed, r.status))
        /\ UNCHANGED <<reqs, db0>>

LogVoteOfAsker ==
    \E a \in AnswerIds, up \in BOOLEAN :
        LET r == vote_on_answer(DB, 1, a, up) IN
        /\ Len(hist) < MaxAcceptCalls
        /\ Install(r.db)
        /\ hist' = Append(hist, LogCall("vote_on_answer", 1, a, up, r.status))
        /\ UNCHANGED <<reqs, db0>>

NextAcceptLog ==
    \/ LogAcceptAnswer
    \/ LogApiAcceptAnswer
    \/ LogUpdateQuestion
    \/ LogVoteOfAsker

SpecAcceptLog == InitAcceptLog /\ [][NextAcceptLog]_vars

(***************************************************************************)
(* The answers of question 1: posting (both families), deleting and        *)
(* accepting (both families), any number of calls while the answers table  *)
(* has ids to hand out; hist holds the last call.                          *)
(***************************************************************************)
InitAnswers ==
    /\ TablesAre(EmptyDB)
    /\ hist = <<>>
    /\ reqs = <<>>
    /\ db0 = EmptyDB

AnswersCreateAnswer ==
    \E u \in Users, q \in QuestionIds :
        LET r == create_answer(DB, u, q) IN
        /\ DB.next_answer_id \in AnswerIds
        /\ Install(r.db)
        /\ hist' = <<LogCall("create_answer", u, DB.next_answer_id, TRUE, r.status)>>
        /\ UNCHANGED <<reqs, db0>>

AnswersApiCreateAnswer ==
    \E u \in Users, q \in QuestionIds :
        LET r == api_create_answer(DB, u, q) IN
        /\ DB.next_answer_id \in AnswerIds
        /\ Install(r.db)
        /\ hist' = <<LogCall("api_create_answer", u, DB.next_answer_id, TRUE, r.status)>>
        /\ UNCHANGED <<reqs, db0>>

AnswersDeleteAnswer ==
    \E u \in Users, a \in AnswerIds :
        LET r == delete_answer(DB, u, a) IN
        /\ Install(r.db)
        /\ hist' = <<LogCall("delete_answer", u, a, TRUE, r.status)>>
        /\ UNCHANGED <<reqs, db0>>

AnswersAcceptAnswer ==
    \E u \in Users, a \in AnswerIds :
        \E c \in FirstAccepted(DB, a) :
            LET r == accept_answer(DB, u, a, c) IN
            /\ WithinBounds(r.db, MaxAcceptRep)
            /\ Install(r.db)
            /\ hist' = <<LogCall("accept_answer", u, a, TRUE, r.status)>>
            /\ UNCHANGED <<reqs, db0>>

AnswersApiAcceptAnswer ==
    \E u \in Users, a \in AnswerIds, acc \in BOOLEAN :
        LET r == api_accept_answer(DB, u, a, acc) IN
        /\ Install(r.db)
        /\ hist' = <<LogCall("api_accept_answer", u, a, acc, r.status)>>
        /\ UNCHANGED <<reqs, db0>>

NextAnswers ==
    \/ AnswersCreateAnswer
    \/ AnswersApiCreateAnswer
    \/ AnswersDeleteAnswer
    \/ AnswersAcceptAnswer
    \/ AnswersApiAcceptAnswer

SpecAnswers == InitAnswers /\ [][NextAnswers]_vars

\* The live answers of a question in the rows D.
LiveAnswers(D, question_id) ==
    {a \in AnswerIds : D.answers[a].exists /\ D.answers[a].question_id = question_id}

(***************************************************************************)
(* Content: a question is asked (both families), retagged and deleted, and *)
(* answers and comments are posted and deleted.  Question 1 is not asked   *)
(* yet.  Retagging is followed while no tag counts more than MaxUsage      *)
(* uses.                                                                   *)
(***************************************************************************)
NothingAsked ==
    [EmptyDB EXCEPT !.questions = [q \in QuestionIds |-> NoQuestion],
                    !.users = [u \in Users |-> [@[u] EXCEPT !.questions_count = 0]],
                    !.next_question_id = 1]

WithinUsage(D) == \A t \in TagNames : D.tags[t].usage_count <= MaxUsage

InitContent ==
    /\ TablesAre(NothingAsked)
    /\ hist = <<>>
    /\ reqs = <<>>
    /\ db0 = NothingAsked

ContentCreateQuestion ==
    \E u \in Users, names \in SUBSET TagNames :
        LET r == create_question(DB, u, names) IN
        /\ DB.next_question_id \in QuestionIds
        /\ Install(r.db)
        /\ UNCHANGED <<hist, reqs, db0>>

ContentApiCreateQuestion ==
    \E u \in Users, names \in SUBSET TagNames :
        LET r == api_create_question(DB, u, names) IN
        /\ DB.next_question_id \in QuestionIds
        /\ Install(r.db)
        /\ UNCHANGED <<hist, reqs, db0>>

ContentUpdateQuestionTags ==
    \E u \in Users, q \in QuestionIds, names \in SUBSET TagNames :
        LET r == update_question_tags(DB, u, q, names) IN
        /\ WithinUsage(r.db)
        /\ Install(r.db)
        /\ UNCHANGED <<hist, reqs, db0>>

ContentDeleteQuestion ==
    \E u \in Users, q \in QuestionIds :
        LET r == delete_question(DB, u, q) IN
        /\ Install(r.db)
        /\ UNCHANGED <<hist, reqs, db0>>

ContentCreateAnswer ==
    \E u \in Users, q \in QuestionIds :
        LET r == api_create_answer(DB, u, q) IN
        /\ DB.next_answer_id \in AnswerIds
        /\ Install(r.db)
        /\ UNCHANGED <<hist, reqs, db0>>

ContentDeleteAnswer ==
    \E u \in Users, a \in AnswerIds :
        LET r == delete_answer(DB, u, a) IN
        /\ Install(r.db)
        /\ UNCHANGED <<hist, reqs, db0>>

ContentCreateComment ==
    \E u \in Users, a \in AnswerIds :
        LET r == create_comment(DB, u, a) IN
        /\ DB.next_comment_id \in CommentIds
        /\ Install(r.db)
        /\ UNCHANGED <<hist, reqs, db0>>

ContentDeleteComment ==
    \E u \in Users, c \in CommentIds :
        LET r == delete_comment(DB, u, c) IN
        /\ Install(r.db)
        /\ UNCHANGED <<hist, reqs, db0>>

NextContent ==
    \/ ContentCreateQuestion
    \/ ContentApiCreateQuestion
    \/ ContentUpdateQuestionTags
    \/ ContentDeleteQuestion
    \/ ContentCreateAnswer
    \/ ContentDeleteAnswer
    \/ ContentCreateComment
    \/ ContentDeleteComment

SpecContent == InitContent /\ [][NextContent]_vars

\* The live rows that the counters count.
LiveQuestionTags(D, t) == {p \in D.question_tags : p[2] = t}

LiveQuestionsBy(D, u) ==
    {q \in QuestionIds : D.questions[q].exists /\ D.questions[q].author_id = u}

LiveAnswersBy(D, u) ==
    {a \in AnswerIds : D.answers[a].exists /\ D.answers[a].author_id = u}

LiveComments(D, answer_id) ==
    {c \in CommentIds : D.comments[c].exists /\ D.comments[c].answer_id = answer_id}

(***************************************************************************)
(* The application that server.py runs: its routers reach, for the         *)
(* answers of question 1, create_answer, accept_answer, vote_on_answer and *)
(* remove_vote of services/.  A request that a client can send is          *)
(* eventually served (uvicorn serves every request it receives).           *)
(***************************************************************************)
InitServer ==
    /\ TablesAre(EmptyDB)
    /\ hist = <<>>
    /\ reqs = <<>>
    /\ db0 = EmptyDB

ServerCreateAnswer ==
    \E u \in Users, q \in QuestionIds :
        LET r == create_answer(DB, u, q) IN
        /\ DB.next_answer_id \in AnswerIds
        /\ Commit(r.db)

ServerAcceptAnswer ==
    \E u \in Users, a \in AnswerIds :
        \E c \in FirstAccepted(DB, a) :
            LET r == accept_answer(DB, u, a, c) IN
            /\ WithinBounds(r.db, MaxAcceptRep)
            /\ Commit(r.db)

ServerVoteOnAnswer ==
    \E u \in Users, a \in AnswerIds, up \in BOOLEAN :
        LET r == vote_on_answer(DB, u, a, up) IN
        /\ WithinBounds(r.db, MaxRep)
        /\ Commit(r.db)

ServerRemoveVote ==
    \E u \in Users, a \in AnswerIds :
        LET r == remove_vote(DB, u, a) IN
        /\ WithinBounds(r.db, MaxRep)
        /\ Commit(r.db)

NextServer ==
    \/ ServerCreateAnswer
    \/ ServerAcceptAnswer
    \/ ServerVoteOnAnswer
    \/ ServerRemoveVote

SpecServer ==
    /\ InitServer
    /\ [][NextServer]_vars
    /\ WF_vars(ServerCreateAnswer)
    /\ WF_vars(ServerAcceptAnswer)
    /\ WF_vars(ServerVoteOnAnswer)
    /\ WF_vars(ServerRemoveVote)

(***************************************************************************)
(* Answers with their notifications: create_answer of services with the    *)
(* users its content mentions and the notifications that fail, and votes   *)
(* on the answers; hist holds the create_answer call that came last.       *)
(***************************************************************************)
NotifyCall(op, user, answer_id, mentions, failing, status) ==
    [op |-> op, user |-> user, answer_id |-> answer_id, mentions |-> mentions,
     failing |-> failing, status |-> status, pre |-> DB]

InitNotify ==
    /\ TablesAre(EmptyDB)
    /\ hist = <<>>
    /\ reqs = <<>>
    /\ db0 = EmptyDB

NotifyCreateAnswer ==
    \E u \in Users, q \in QuestionIds, mentions \in SUBSET Users,
       failing \in SUBSET NotificationKinds :
        LET r == create_answer_notifying(DB, u, q, mentions, failing) IN
        /\ DB.next_answer_id \in AnswerIds
        /\ Install(r.db)
        /\ hist' = <<NotifyCall("create_answer", u, DB.next_answer_id, mentions,
                                failing, r.status)>>
        /\ UNCHANGED <<reqs, db0>>

NotifyVoteOnAnswer ==
    \E u \in Users, a \in AnswerIds, up \in BOOLEAN :
        LET r == vote_on_answer(DB, u, a, up) IN
        /\ WithinBounds(r.db, MaxRep)
        /\ Install(r.db)
        /\ hist' = <<>>
        /\ UNCHANGED <<reqs, db0>>

NextNotify ==
    \/ NotifyCreateAnswer
    \/ NotifyVoteOnAnswer

SpecNotify == InitNotify /\ [][NextNotify]_vars

(***************************************************************************)
(* The two engines side by side: votes (vote_on_answer, remove_vote) and   *)
(* acceptance (accept_answer of services, the toggle of app/api) on the    *)
(* answers of users 2 and 3 to question 1, answer 1 accepted or not and     *)
(* upvoted by the asker or not; hist holds the calls, at most              *)
(* MaxEnginesCalls of them.                                                *)
(***************************************************************************)
InitEngines ==
    /\ \E accepted, voted \in BOOLEAN :
          LET D1 == IF accepted THEN accept_answer(Posted(<<2, 3>>), 1, 1, NULL).db
                    ELSE Posted(<<2, 3>>)
          IN TablesAre(IF voted THEN vote_on_answer(D1, 1, 1, TRUE).db ELSE D1)
    /\ hist = <<>>
    /\ reqs = <<>>
    /\ db0 = EmptyDB

EnginesVoteOnAnswer ==
    \E u \in Users, a \in AnswerIds, up \in BOOLEAN :
        LET r == vote_on_answer(DB, u, a, up) IN
        /\ Len(hist) < MaxEnginesCalls
        /\ Install(r.db)
        /\ hist' = Append(hist, LogCall("vote_on_answer", u, a, up, r.status))
        /\ UNCHANGED <<reqs, db0>>

EnginesRemoveVote ==
    \E u \in Users, a \in AnswerIds :
        LET r == remove_vote(DB, u, a) IN
        /\ Len(hist) < MaxEnginesCalls
        /\ Install(r.db)
        /\ hist' = Append(hist, LogCall("remove_vote", u, a, FALSE, r.status))
        /\ UNCHANGED <<reqs, db0>>

EnginesAcceptAnswer ==
    \E u \in Users, a \in AnswerIds :
        \E c \in FirstAccepted(DB, a) :
            LET r == accept_answer(DB, u, a, c) IN
            /\ Len(hist) < MaxEnginesCalls
            /\ Install(r.db)
            /\ hist' = Append(hist, LogCall("accept_answer", u, a, TRUE, r.status))
            /\ UNCHANGED <<reqs, db0>>

EnginesApiAcceptAnswer ==
    \E u \in Users, a \in AnswerIds, acc \in BOOLEAN :
        LET r == api_accept_answer(DB, u, a, acc) IN
        /\ Len(hist) < MaxEnginesCalls
        /\ Install(r.db)
        /\ hist' = Append(hist, LogCall("api_accept_answer", u, a, acc, r.status))
        /\ UNCHANGED <<reqs, db0>>

NextEngines ==
    \/ EnginesVoteOnAnswer
    \/ EnginesRemoveVote
    \/ EnginesAcceptAnswer
    \/ EnginesApiAcceptAnswer

SpecEngines == InitEngines /\ [][NextEngines]_vars

(***************************************************************************)
(* Requests with failures.  Every services handler runs in one try block   *)
(* that holds its db.commit() and the statements after it: the refresh of  *)
(* the new row, the queries for the response, the reads of attributes that *)
(* the commit expired.  A failure in any of them (the connection drops,    *)
(* the row was deleted meanwhile) reaches `except Exception`, which rolls  *)
(* back and raises the 500 response.                                       *)
(***************************************************************************)
Faults == {"none", "commit", "response"}

\* What the client gets and what the tables hold when the handler computed
\* r on the rows D and the fault happened.
WithFault(r, D, fault) ==
    IF r.status \notin {200, 201} THEN r
    ELSE IF fault = "commit" THEN Resp(500, D)
    ELSE IF fault = "response" THEN Resp(500, r.db)
    ELSE r

InitFault ==
    /\ \E voted \in BOOLEAN :
          TablesAre(IF voted THEN vote_on_answer(Posted(<<2>>), 1, 1, TRUE).db
                    ELSE Posted(<<2>>))
    /\ hist = <<>>
    /\ reqs = <<>>
    /\ db0 = EmptyDB

FaultVoteOnAnswer ==
    \E u \in Users, a \in AnswerIds, up \in BOOLEAN, fault \in Faults :
        LET r == WithFault(vote_on_answer(DB, u, a, up), DB, fault) IN
        /\ Len(hist) < MaxFaultCalls
        /\ Install(r.db)
        /\ hist' = Append(hist, Call("vote_on_answer", u, a, up, r.status))
        /\ UNCHANGED <<reqs, db0>>

FaultRemoveVote ==
    \E u \in Users, a \in AnswerIds, fault \in Faults :
        LET r == WithFault(remove_vote(DB, u, a), DB, fault) IN
        /\ Len(hist) < MaxFaultCalls
        /\ Install(r.db)
        /\ hist' = Append(hist, Call("remove_vote", u, a, FALSE, r.status))
        /\ UNCHANGED <<reqs, db0>>

FaultAcceptAnswer ==
    \E u \in Users, a \in AnswerIds, fault \in Faults :
        \E c \in FirstAccepted(DB, a) :
            LET r == WithFault(accept_answer(DB, u, a, c), DB, fault) IN
            /\ Len(hist) < MaxFaultCalls
            /\ Install(r.db)
            /\ hist' = Append(hist, Call("accept_answer", u, a, FALSE, r.status))
            /\ UNCHANGED <<reqs, db0>>

FaultCreateAnswer ==
    \E u \in Users, q \in QuestionIds, fault \in Faults :
        LET r == WithFault(create_answer(DB, u, q), DB, fault) IN
        /\ Len(hist) < MaxFaultCalls
        /\ DB.next_answer_id \in AnswerIds
        /\ Install(r.db)
        /\ hist' = Append(hist, Call("create_answer", u, DB.next_answer_id,
                                     FALSE, r.status))
        /\ UNCHANGED <<reqs, db0>>

NextFault ==
    \/ FaultVoteOnAnswer
    \/ FaultRemoveVote
    \/ FaultAcceptAnswer
    \/ FaultCreateAnswer

SpecFault == InitFault /\ [][NextFault]_vars

(***************************************************************************)
(* Concurrent requests.  Each request has its own session: it reads the    *)
(* rows it needs (no FOR UPDATE, no version column), computes the new      *)
(* values from what it read, and flushes and commits them later; other     *)
(* requests may read and commit in between.  reqs[i] holds the request's   *)
(* arguments, the rows as it read them and its response status; db0 holds  *)
(* the rows before any of the requests started.                            *)
(***************************************************************************)
ReqIds == {1, 2}

IdleReq == [pc |-> "idle", op |-> "none", user |-> 1, answer_id |-> 1,
            is_upvote |-> FALSE, is_accepted |-> FALSE, first |-> NULL,
            snap |-> EmptyDB, status |-> 0]

\* The request has run its queries: the session holds the rows of D.
ReadReq(op, user, answer_id, is_upvote, is_accepted, first, D) ==
    [pc |-> "read", op |-> op, user |-> user, answer_id |-> answer_id,
     is_upvote |-> is_upvote, is_accepted |-> is_accepted, first |-> first,
     snap |-> D, status |-> 0]

\* The handler of the request, run on the rows D.
Handle(req, D) ==
    CASE req.op = "vote_on_answer" ->
            vote_on_answer(D, req.user, req.answer_id, req.is_upvote)
      [] req.op = "remove_vote" -> remove_vote(D, req.user, req.answer_id)
      [] req.op = "create_vote" ->
            create_vote(D, req.user, req.answer_id, req.is_upvote)
      [] req.op = "accept_answer" ->
            accept_answer(D, req.user, req.answer_id, req.first)
      [] req.op = "api_accept_answer" ->
            api_accept_answer(D, req.user, req.answer_id, req.is_accepted)
      [] OTHER -> Resp(500, D)

InitConc ==
    /\ \E author2 \in {2, 3}, voted \in BOOLEAN :
          TablesAre(IF voted
                    THEN vote_on_answer(Posted(<<2, author2>>), 1, 1, TRUE).db
                    ELSE Posted(<<2, author2>>))
    /\ db0 = DB
    /\ reqs = [i \in ReqIds |-> IdleReq]
    /\ hist = <<>>

BeginVoteOnAnswer ==
    \E i \in ReqIds, u \in Users, a \in AnswerIds, up \in BOOLEAN :
        /\ reqs[i].pc = "idle"
        /\ reqs' = [reqs EXCEPT ![i] =
                       ReadReq("vote_on_answer", u, a, up, FALSE, NULL, DB)]
        /\ UNCHANGED <<tables, hist, db0>>

BeginRemoveVote ==
    \E i \in ReqIds, u \in Users, a \in AnswerIds :
        /\ reqs[i].pc = "idle"
        /\ reqs' = [reqs EXCEPT ![i] =
                       ReadReq("remove_vote", u, a, FALSE, FALSE, NULL, DB)]
        /\ UNCHANGED <<tables, hist, db0>>

BeginCreateVote ==
    \E i \in ReqIds, u \in Users, a \in AnswerIds, up \in BOOLEAN :
        /\ reqs[i].pc = "idle"
        /\ reqs' = [reqs EXCEPT ![i] =
                       ReadReq("create_vote", u, a, up, FALSE, NULL, DB)]
        /\ UNCHANGED <<tables, hist, db0>>

BeginAcceptAnswer ==
    \E i \in ReqIds, u \in Users, a \in AnswerIds :
        \E c \in FirstAccepted(DB, a) :
            /\ reqs[i].pc = "idle"
            /\ reqs' = [reqs EXCEPT ![i] =
                           ReadReq("accept_answer", u, a, FALSE, FALSE, c, DB)]
            /\ UNCHANGED <<tables, hist, db0>>

BeginApiAcceptAnswer ==
    \E i \in ReqIds, u \in Users, a \in AnswerIds, acc \in BOOLEAN :
        /\ reqs[i].pc = "idle"
        /\ reqs' = [reqs EXCEPT ![i] =
                       ReadReq("api_accept_answer", u, a, FALSE, acc, NULL, DB)]
        /\ UNCHANGED <<tables, hist, db0>>

\* The handler raises an HTTPException and rolls back, or reaches
\* db.commit(): the flush writes its dirty columns over the committed rows,
\* or raises, and then the handler rolls back and answers 500.
FinishRequest ==
    \E i \in ReqIds :
        LET r == Handle(reqs[i], reqs[i].snap)
            f == Flush(DB, reqs[i].snap, r.db)
            ok == r.status \in {200, 201}
        IN
        /\ reqs[i].pc = "read"
        /\ Install(IF ok /\ f.ok THEN f.db ELSE DB)
        /\ reqs' = [reqs EXCEPT ![i].pc = "done",
                                ![i].status = IF ~ok THEN r.status
                                              ELSE IF f.ok THEN r.status
                                              ELSE 500]
        /\ UNCHANGED <<hist, db0>>

NextConc ==
    \/ BeginVoteOnAnswer
    \/ BeginRemoveVote
    \/ BeginCreateVote
    \/ BeginAcceptAnswer
    \/ BeginApiAcceptAnswer
    \/ FinishRequest

SpecConc == InitConc /\ [][NextConc]_vars

(***************************************************************************)
(* Two overlapping requests on the content: each reads the committed rows, *)
(* then runs its handler on them and commits.  The rows at the start are   *)
(* what the handlers leave after user 1 asked question 1 with one tag,     *)
(* alone, or after user 2 answered it and user 3 commented on the answer,  *)
(* the answer accepted or not.                                             *)
(***************************************************************************)
Asked ==
    LET D1 == api_create_question(NothingAsked, 1, {"python"}).db
        D2 == api_create_answer(D1, 2, 1).db
    IN create_comment(D2, 3, 1).db

IdleContentReq ==
    [pc |-> "idle", op |-> "none", user |-> 1, id |-> 1, is_upvote |-> FALSE,
     first |-> NULL, names |-> {}, snap |-> EmptyDB, status |-> 0]

ContentReq(op, user, id, is_upvote, first, names, D) ==
    [pc |-> "read", op |-> op, user |-> user, id |-> id, is_upvote |-> is_upvote,
     first |-> first, names |-> names, snap |-> D, status |-> 0]

HandleContent(req, D) ==
    CASE req.op = "create_answer" -> api_create_answer(D, req.user, req.id)
      [] req.op = "delete_answer" -> delete_answer(D, req.user, req.id)
      [] req.op = "create_comment" -> create_comment(D, req.user, req.id)
      [] req.op = "delete_comment" -> delete_comment(D, req.user, req.id)
      [] req.op = "update_question" ->
            update_question_tags(D, req.user, req.id, req.names)
      [] req.op = "delete_question" -> delete_question(D, req.user, req.id)
      [] req.op = "vote_on_answer" ->
            vote_on_answer(D, req.user, req.id, req.is_upvote)
      [] req.op = "accept_answer" ->
            accept_answer(D, req.user, req.id, req.first)
      [] OTHER -> Resp(500, D)

\* The requests of the operation that have read and not committed yet.
InFlight(op) == {i \in ReqIds : reqs[i].pc = "read" /\ reqs[i].op = op}

InitOverlap ==
    /\ \/ \E accepted \in BOOLEAN :
             TablesAre(IF accepted THEN accept_answer(Asked, 1, 1, NULL).db ELSE Asked)
       \/ TablesAre(api_create_question(NothingAsked, 1, {"python"}).db)
    /\ db0 = DB
    /\ reqs = [i \in ReqIds |-> IdleContentReq]
    /\ hist = <<>>

OverlapCreateAnswer ==
    \E i \in ReqIds, u \in Users, q \in QuestionIds :
        /\ reqs[i].pc = "idle"
        /\ DB.next_answer_id + Cardinality(InFlight("create_answer")) \in AnswerIds
        /\ reqs' = [reqs EXCEPT ![i] =
                       ContentReq("create_answer", u, q, FALSE, NULL, {}, DB)]
        /\ UNCHANGED <<tables, hist, db0>>

OverlapDeleteAnswer ==
    \E i \in ReqIds, u \in Users, a \in AnswerIds :
        /\ reqs[i].pc = "idle"
        /\ reqs' = [reqs EXCEPT ![i] =
                       ContentReq("delete_answer", u, a, FALSE, NULL, {}, DB)]
        /\ UNCHANGED <<tables, hist, db0>>

OverlapCreateComment ==
    \E i \in ReqIds, u \in Users, a \in AnswerIds :
        /\ reqs[i].pc = "idle"
        /\ DB.next_comment_id + Cardinality(InFlight("create_comment")) \in CommentIds
        /\ reqs' = [reqs EXCEPT ![i] =
                       ContentReq("create_comment", u, a, FALSE, NULL, {}, DB)]
        /\ UNCHANGED <<tables, hist, db0>>

OverlapDeleteComment ==
    \E i \in ReqIds, u \in Users, c \in CommentIds :
        /\ reqs[i].pc = "idle"
        /\ reqs' = [reqs EXCEPT ![i] =
                       ContentReq("delete_comment", u, c, FALSE, NULL, {}, DB)]
        /\ UNCHANGED <<tables, hist, db0>>

OverlapUpdateQuestionTags ==
    \E i \in ReqIds, u \in Users, q \in QuestionIds, names \in SUBSET TagNames :
        /\ reqs[i].pc = "idle"
        /\ reqs' = [reqs EXCEPT ![i] =
                       ContentReq("update_question", u, q, FALSE, NULL, names, DB)]
        /\ UNCHANGED <<tables, hist, db0>>

OverlapDeleteQuestion ==
    \E i \in ReqIds, u \in Users, q \in QuestionIds :
        /\ reqs[i].pc = "idle"
        /\ reqs' = [reqs EXCEPT ![i] =
                       ContentReq("delete_question", u, q, FALSE, NULL, {}, DB)]
        /\ UNCHANGED <<tables, hist, db0>>

OverlapVoteOnAnswer ==
    \E i \in ReqIds, u \in Users, a \in AnswerIds, up \in BOOLEAN :
        /\ reqs[i].pc = "idle"
        /\ reqs' = [reqs EXCEPT ![i] =
                       ContentReq("vote_on_answer", u, a, up, NULL, {}, DB)]
        /\ UNCHANGED <<tables, hist, db0>>

OverlapAcceptAnswer ==
    \E i \in ReqIds, u \in Users, a \in AnswerIds :
        \E c \in FirstAccepted(DB, a) :
            /\ reqs[i].pc = "idle"
            /\ reqs' = [reqs EXCEPT ![i] =
                           ContentReq("accept_answer", u, a, FALSE, c, {}, DB)]
            /\ UNCHANGED <<tables, hist, db0>>

\* The handler raises an HTTPException and rolls back, or reaches
\* db.commit(): the flush writes over the committed rows, or raises, and
\* then the request answers 500 and nothing of it is committed.
OverlapFinish ==
    \E i \in ReqIds :
        LET r == HandleContent(reqs[i], reqs[i].snap)
            f == FlushContent(DB, reqs[i].snap, r.db)
            ok == r.status \in {200, 201}
        IN
        /\ reqs[i].pc = "read"
        /\ Install(IF ok /\ f.ok THEN f.db ELSE DB)
        /\ reqs' = [reqs EXCEPT ![i].pc = "done",
                                ![i].status = IF ~ok THEN r.status
                                              ELSE IF f.ok THEN r.status
                                              ELSE 500]
        /\ UNCHANGED <<hist, db0>>

NextOverlap ==
    \/ OverlapCreateAnswer
    \/ OverlapDeleteAnswer
    \/ OverlapCreateComment
    \/ OverlapDeleteComment
    \/ OverlapUpdateQuestionTags
    \/ OverlapDeleteQuestion
    \/ OverlapVoteOnAnswer
    \/ OverlapAcceptAnswer
    \/ OverlapFinish

SpecOverlap == InitOverlap /\ [][NextOverlap]_vars

AllDone == \A i \in ReqIds : reqs[i].pc = "done"

\* The rows after the request is served alone on the rows D.
Serial(D, req) ==
    LET r == Handle([req EXCEPT !.first =
                        IF req.op = "accept_answer"
                        THEN CHOOSE c \in FirstAccepted(D, req.answer_id) : TRUE
                        ELSE NULL], D)
    IN IF r.status \in {200, 201} THEN r.db ELSE D

(***************************************************************************)
(* The ledger: what the live rows say.                                     *)
(***************************************************************************)
\* The live vote rows of an answer with the given direction.
LiveVotes(D, answer_id, is_upvote) ==
    {<<u, i>> \in Users \X (1..2) :
        /\ i <= Len(D.votes[<<u, answer_id>>])
        /\ D.votes[<<u, answer_id>>][i] = is_upvote}

\* sum(+1 for upvote, -1 for downvote) over the live rows of an answer.
LedgerScore(D, answer_id) ==
    Cardinality(LiveVotes(D, answer_id, TRUE))
    - Cardinality(LiveVotes(D, answer_id, FALSE))

AnswersOf(D, author_id) ==
    {a \in AnswerIds : D.answers[a].exists /\ D.answers[a].author_id = author_id}

\* The live vote rows with the given direction on the answers of an author.
LiveVotesOn(D, author_id, is_upvote) ==
    {<<a, v>> \in AnswerIds \X (Users \X (1..2)) :
        a \in AnswersOf(D, author_id) /\ v \in LiveVotes(D, a, is_upvote)}

\* update_user_reputation: SUM(10 or -2 per vote) + 15 * accepted answers;
\* the column is floored at 0.
LedgerReputation(D, user_id) ==
    Max(0, 10 * Cardinality(LiveVotesOn(D, user_id, TRUE))
           - 2 * Cardinality(LiveVotesOn(D, user_id, FALSE))
           + 15 * Cardinality({a \in AnswersOf(D, user_id) : D.answers[a].is_accepted}))

(***************************************************************************)
(* Claims on the vote engine (Spec).                                       *)
(***************************************************************************)
\* C1: in every state reached by vote cast, change and remove operations of
\* either endpoint family, the stored vote_score of every answer equals its
\* live upvote rows minus its live downvote rows.
C1_LedgerCounterEquivalence ==
    \A a \in AnswerIds :
        answers[a].exists => answers[a].vote_score = LedgerScore(DB, a)

\* An answer holding an upvote and a downvote next to an answer at score -2.
C1_Witness ==
    \E a, b \in AnswerIds :
        /\ LiveVotes(DB, a, TRUE) # {} /\ LiveVotes(DB, a, FALSE) # {}
        /\ answers[b].vote_score = -2
        /\ LedgerScore(DB, b) = -2

\* C4: every user's reputation_score equals
\* max(0, 10 * live upvotes - 2 * live downvotes + 15 * accepted answers),
\* the formula of update_user_reputation.
C4_ReputationEqualsLedger ==
    \A u \in Users : users[u].reputation_score = LedgerReputation(DB, u)

\* A response that reports a failure and leaves the rows as they were.
Rejected(r, D) == r.status \in {400, 403} /\ r.db = D

\* C6: a cast by the author of the answer fails through vote_on_answer and
\* through create_vote, for both directions, with the rows unchanged; and no
\* vote row is held by the author of its answer.
C6_SelfVoteRejected ==
    \A a \in AnswerIds :
        answers[a].exists =>
            /\ votes[<<answers[a].author_id, a>>] = <<>>
            /\ \A up \in BOOLEAN :
                  /\ Rejected(vote_on_answer(DB, answers[a].author_id, a, up), DB)
                  /\ Rejected(create_vote(DB, answers[a].author_id, a, up), DB)

\* An author with reputation from the votes of others, whose own cast on
\* that answer is refused with 400.
C6_Witness ==
    \E a \in AnswerIds :
        /\ answers[a].exists
        /\ LiveVotes(DB, a, TRUE) # {}
        /\ users[answers[a].author_id].reputation_score >= 10
        /\ vote_on_answer(DB, answers[a].author_id, a, TRUE).status = 400

(***************************************************************************)
(* Claims on the acceptance engine (SpecAccept).                           *)
(***************************************************************************)
\* C2: after any sequence of accept and unaccept calls, at most one answer
\* of a question has is_accepted = TRUE, and if one does its id equals the
\* question's accepted_answer_id.
C2_SingleAcceptance ==
    \A q \in QuestionIds :
        /\ Cardinality(AcceptedAnswers(DB, q)) <= 1
        /\ \A a \in AcceptedAnswers(DB, q) : questions[q].accepted_answer_id = a

(***************************************************************************)
(* Claims on logged sessions (SpecHist).                                   *)
(***************************************************************************)
\* C5: for every starting reputation of the author, a new upvote by
\* vote_on_answer followed at once by remove_vote of the same voter on the
\* same answer succeeds and leaves the author's reputation_score and the
\* answer's vote_score at their values before the upvote.
C5_ReputationRoundTrip ==
    \A i \in 1..(Len(hist) - 1) :
        (IsNewVote(i, TRUE) /\ hist[i + 1].op = "remove_vote" /\ SameVoter(i, i + 1))
        => /\ hist[i].status = 200
           /\ hist[i + 1].status = 200
           /\ AuthorRep(After(i + 1), hist[i]) = AuthorRep(hist[i].pre, hist[i])
           /\ Score(After(i + 1), hist[i]) = Score(hist[i].pre, hist[i])

\* A round trip made at a reputation above 0 and a score other than 0.
C5_Witness ==
    /\ Len(hist) = 3
    /\ IsNewVote(2, TRUE) /\ hist[3].op = "remove_vote" /\ SameVoter(2, 3)
    /\ AuthorRep(hist[2].pre, hist[2]) > 0
    /\ Score(hist[2].pre, hist[2]) # 0
    /\ AuthorRep(DB, hist[2]) = AuthorRep(hist[2].pre, hist[2])

\* C10: with the author at reputation 0 and the answer at score 0, a new
\* upvote gives reputation 10 and score 1; the voter changing it to a
\* downvote gives reputation 0 and score -1; the voter removing it gives
\* reputation 2 and score 0.
C10_VoteScenario ==
    \A i \in 1..Len(hist) :
        (/\ IsNewVote(i, TRUE)
         /\ AuthorRep(hist[i].pre, hist[i]) = 0
         /\ Score(hist[i].pre, hist[i]) = 0)
        => /\ AuthorRep(After(i), hist[i]) = 10
           /\ Score(After(i), hist[i]) = 1
           /\ (/\ i + 1 <= Len(hist)
               /\ hist[i + 1].op = "vote_on_answer"
               /\ ~hist[i + 1].is_upvote
               /\ SameVoter(i, i + 1))
              => /\ AuthorRep(After(i + 1), hist[i]) = 0
                 /\ Score(After(i + 1), hist[i]) = -1
                 /\ (/\ i + 2 <= Len(hist)
                     /\ hist[i + 2].op = "remove_vote"
                     /\ SameVoter(i, i + 2))
                    => /\ AuthorRep(After(i + 2), hist[i]) = 2
                       /\ Score(After(i + 2), hist[i]) = 0

\* The whole scenario: upvote, change to downvote, removal, ending at
\* reputation 2 and score 0.
C10_Witness ==
    /\ Len(hist) = 3
    /\ IsNewVote(1, TRUE)
    /\ AuthorRep(hist[1].pre, hist[1]) = 0
    /\ hist[2].op = "vote_on_answer" /\ ~hist[2].is_upvote /\ SameVoter(1, 2)
    /\ hist[3].op = "remove_vote" /\ SameVoter(1, 3)
    /\ hist[3].status = 200
    /\ AuthorRep(DB, hist[1]) = 2
    /\ Score(DB, hist[1]) = 0

(***************************************************************************)
(* Claims on concurrent requests (SpecConc).                               *)
(***************************************************************************)
\* Both requests are new casts through vote_on_answer or create_vote, by
\* two users who are not the author, on the same answer.
TwoNewCastsOnOneAnswer ==
    /\ \A i \in ReqIds :
          /\ reqs[i].op \in {"vote_on_answer", "create_vote"}
          /\ reqs[i].answer_id = reqs[1].answer_id
          /\ reqs[i].user # db0.answers[reqs[i].answer_id].author_id
          /\ VoteRows(db0, reqs[i].user, reqs[i].answer_id) = <<>>
    /\ reqs[1].user # reqs[2].user

\* C3: when N distinct users each cast one vote on the same answer and the
\* requests interleave, the final state has exactly N more vote rows and
\* vote_score equal to upvotes minus downvotes: no update is lost.
C3_ConcurrentVoteIsolation ==
    (AllDone /\ TwoNewCastsOnOneAnswer)
    => LET a == reqs[1].answer_id IN
       /\ \A i \in ReqIds : votes[<<reqs[i].user, a>>] = <<reqs[i].is_upvote>>
       /\ Cardinality(LiveVotes(DB, a, TRUE) \union LiveVotes(DB, a, FALSE))
          = Cardinality(LiveVotes(db0, a, TRUE) \union LiveVotes(db0, a, FALSE))
            + Cardinality(ReqIds)
       /\ answers[a].vote_score = LedgerScore(DB, a)

\* Both requests are accepts by the question author, of two different
\* answers of a question with no accepted answer.
TwoAcceptsOfOneQuestion ==
    /\ \A i \in ReqIds :
          /\ \/ reqs[i].op = "accept_answer"
             \/ reqs[i].op = "api_accept_answer" /\ reqs[i].is_accepted
          /\ reqs[i].user = db0.questions[db0.answers[reqs[i].answer_id].question_id].author_id
    /\ reqs[1].answer_id # reqs[2].answer_id

\* The reputation all users gained since the requests started.
RECURSIVE ReputationGain(_)
ReputationGain(S) ==
    IF S = {} THEN 0
    ELSE LET u == CHOOSE x \in S : TRUE IN
         users[u].reputation_score - db0.users[u].reputation_score
         + ReputationGain(S \ {u})

\* C8: when the question author's two accept requests for two different
\* answers interleave, the final state has exactly one accepted answer, it
\* is the one accepted_answer_id names, and (through the services
\* accept_answer) exactly one award of 15 is held.
C8_AcceptanceSerialization ==
    (AllDone /\ TwoAcceptsOfOneQuestion)
    => \A q \in QuestionIds :
          /\ Cardinality(AcceptedAnswers(DB, q)) = 1
          /\ questions[q].accepted_answer_id \in AcceptedAnswers(DB, q)
          /\ (\A i \in ReqIds : reqs[i].op = "accept_answer")
             => ReputationGain(Users) = 15

\* Both requests are vote operations of the services, on two different answers.
TwoVoteOpsOnTwoAnswers ==
    /\ \A i \in ReqIds : reqs[i].op \in {"vote_on_answer", "remove_vote"}
    /\ reqs[1].answer_id # reqs[2].answer_id

\* C9: two vote operations on two different answers that run concurrently
\* end in the state that running them one after the other, in one of the
\* two orders, ends in: vote rows, vote_scores and every reputation_score.
C9_IndependenceAcrossAnswers ==
    (AllDone /\ TwoVoteOpsOnTwoAnswers)
    => \/ DB = Serial(Serial(db0, reqs[1]), reqs[2])
       \/ DB = Serial(Serial(db0, reqs[2]), reqs[1])

(***************************************************************************)
(* Claims on requests with failures (SpecFault).                           *)
(***************************************************************************)
\* C7: a vote_on_answer, remove_vote, accept_answer or create_answer call
\* that answers with an error (404, 400, 403 or 500) leaves the tables
\* exactly as they were before the call.
C7_FailureAtomicity ==
    \A i \in 1..Len(hist) :
        hist[i].status \notin {200, 201} => After(i) = hist[i].pre

(***************************************************************************)
(* Claims on single vote calls (SpecVoteLog).                              *)
(***************************************************************************)
\* C12: when the voter, who is not the author, holds no vote on the answer,
\* a cast (vote_on_answer or create_vote) succeeds, inserts exactly one
\* row, moves vote_score by +1 (upvote) or -1 (downvote) and takes the
\* author's reputation from r to r + 10 or to max(0, r - 2).
C12_NewVote ==
    (/\ LastIs({"vote_on_answer", "create_vote"})
     /\ RowsBefore = <<>>
     /\ hist[1].user # hist[1].pre.answers[hist[1].answer_id].author_id)
    => LET c == hist[1] IN
       /\ c.status \in {200, 201}
       /\ RowsNow = <<c.is_upvote>>
       /\ OtherRowsKept
       /\ Score(DB, c) = Score(c.pre, c) + (IF c.is_upvote THEN 1 ELSE -1)
       /\ AuthorRep(DB, c) = IF c.is_upvote THEN AuthorRep(c.pre, c) + 10
                             ELSE Max(0, AuthorRep(c.pre, c) - 2)

\* C13: when the voter holds the opposite vote, a cast (vote_on_answer or
\* update_vote) flips the row in place, moves vote_score by +2 or -2 and
\* takes the author's reputation from r to r + 20 or to max(0, r - 20).
C13_VoteFlip ==
    (/\ LastIs({"vote_on_answer", "update_vote"})
     /\ RowsBefore = <<~hist[1].is_upvote>>)
    => LET c == hist[1] IN
       /\ c.status = 200
       /\ RowsNow = <<c.is_upvote>>
       /\ OtherRowsKept
       /\ Score(DB, c) = Score(c.pre, c) + (IF c.is_upvote THEN 2 ELSE -2)
       /\ AuthorRep(DB, c) = IF c.is_upvote THEN AuthorRep(c.pre, c) + 20
                             ELSE Max(0, AuthorRep(c.pre, c) - 20)

\* C14: when the voter already holds a vote of the same direction, casting
\* it again (vote_on_answer or create_vote) succeeds and changes nothing.
C14_CastIdempotence ==
    (/\ LastIs({"vote_on_answer", "create_vote"})
     /\ RowsBefore = <<hist[1].is_upvote>>)
    => /\ hist[1].status \in {200, 201}
       /\ NothingChanged

\* C15: when the voter holds a vote, removing it (remove_vote or
\* delete_vote) deletes exactly that row; an upvote removed moves
\* vote_score by -1 and the author's reputation from r to max(0, r - 10),
\* a downvote removed moves vote_score by +1 and the reputation to r + 2.
C15_VoteRemoval ==
    (/\ LastIs({"remove_vote", "delete_vote"})
     /\ RowsBefore # <<>>)
    => LET c == hist[1]
           was_upvote == RowsBefore[1]
       IN
       /\ c.status = 200
       /\ RowsNow = <<>>
       /\ OtherRowsKept
       /\ Score(DB, c) = Score(c.pre, c) + (IF was_upvote THEN -1 ELSE 1)
       /\ AuthorRep(DB, c) = IF was_upvote THEN Max(0, AuthorRep(c.pre, c) - 10)
                             ELSE AuthorRep(c.pre, c) + 2

\* C16: a removal (remove_vote or delete_vote) of a vote that has no row
\* answers 404 and leaves vote rows, vote_score and reputation unchanged.
C16_RemoveMissingVote ==
    (/\ hist # <<>>
     /\ hist[1].op \in {"remove_vote", "delete_vote"}
     /\ VoteRows(hist[1].pre, hist[1].owner, hist[1].answer_id) = <<>>)
    => /\ hist[1].status = 404
       /\ NothingChanged

\* A removal of a missing vote was refused on an answer that carries the
\* vote of another user and whose author holds reputation.
C16_Witness ==
    /\ hist # <<>>
    /\ hist[1].op = "remove_vote"
    /\ hist[1].user # 2
    /\ RowsBefore = <<>>
    /\ hist[1].status = 404
    /\ answers[1].vote_score # 0
    /\ users[2].reputation_score > 0

(***************************************************************************)
(* Claims on acceptance calls (SpecAcceptLog).                             *)
(***************************************************************************)
\* The question of an answer, its author, and a user's reputation, in the
\* rows D.
QuestionOf(D, answer_id) == D.questions[D.answers[answer_id].question_id]
AuthorOf(D, answer_id) == D.answers[answer_id].author_id
Rep(D, user) == D.users[user].reputation_score

\* Call i is an accept request of one of ops for an answer that exists.
IsAccept(i, ops) ==
    /\ hist[i].op \in ops
    /\ hist[i].arg
    /\ hist[i].pre.answers[hist[i].answer_id].exists

\* Calls i and i + 1 are the scenario: the asker accepts X and then Y, two
\* answers of an open question with no accepted answer, whose two authors
\* both start at reputation 0.
IsAcceptanceScenario(i) ==
    /\ IsAccept(i, {"accept_answer"})
    /\ IsAccept(i + 1, {"accept_answer"})
    /\ hist[i].answer_id # hist[i + 1].answer_id
    /\ hist[i].user = QuestionOf(hist[i].pre, hist[i].answer_id).author_id
    /\ hist[i + 1].user = hist[i].user
    /\ ~QuestionOf(hist[i].pre, hist[i].answer_id).is_closed
    /\ ~QuestionOf(hist[i].pre, hist[i].answer_id).has_accepted_answer
    /\ QuestionOf(hist[i].pre, hist[i].answer_id).accepted_answer_id = NULL
    /\ AcceptedAnswers(hist[i].pre, hist[i].pre.answers[hist[i].answer_id].question_id) = {}
    /\ AuthorOf(hist[i].pre, hist[i].answer_id) # AuthorOf(hist[i].pre, hist[i + 1].answer_id)
    /\ Rep(hist[i].pre, AuthorOf(hist[i].pre, hist[i].answer_id)) = 0
    /\ Rep(hist[i].pre, AuthorOf(hist[i].pre, hist[i + 1].answer_id)) = 0

\* C11: with question Q (author C) and answers X (author D, reputation 0)
\* and Y (author E, reputation 0): after C accepts X, D holds 15 and
\* accepted_answer_id is X; after C then accepts Y, D holds 0, E holds 15,
\* accepted_answer_id is Y and X is no longer accepted.
C11_AcceptanceScenario ==
    \A i \in 1..(Len(hist) - 1) :
        IsAcceptanceScenario(i)
        => LET X == hist[i].answer_id
               Y == hist[i + 1].answer_id
               s1 == After(i)
               s2 == After(i + 1)
           IN
           /\ Rep(s1, AuthorOf(s1, X)) = 15
           /\ QuestionOf(s1, X).accepted_answer_id = X
           /\ Rep(s2, AuthorOf(s2, X)) = 0
           /\ Rep(s2, AuthorOf(s2, Y)) = 15
           /\ QuestionOf(s2, Y).accepted_answer_id = Y
           /\ ~s2.answers[X].is_accepted
           /\ s2.answers[Y].is_accepted

C11_Witness ==
    /\ Len(hist) >= 2
    /\ IsAcceptanceScenario(Len(hist) - 1)
    /\ hist[Len(hist)].status = 200

\* Call i is an accept or unaccept request for an answer that exists.
IsAcceptRequest(i) ==
    /\ hist[i].op \in {"accept_answer", "api_accept_answer"}
    /\ hist[i].pre.answers[hist[i].answer_id].exists

\* C17: an accept request by a user who is not the author of the answer's
\* question answers 403 and changes no is_accepted flag, no acceptance
\* field of the question and no reputation.
C17_AcceptAuthorization ==
    \A i \in 1..Len(hist) :
        (/\ IsAcceptRequest(i)
         /\ hist[i].user # QuestionOf(hist[i].pre, hist[i].answer_id).author_id)
        => /\ hist[i].status = 403
           /\ After(i) = hist[i].pre

\* C18: an accept request for an answer of a closed question fails and
\* changes no acceptance flag and no reputation.
C18_ClosedQuestion ==
    \A i \in 1..Len(hist) :
        (/\ IsAcceptRequest(i)
         /\ QuestionOf(hist[i].pre, hist[i].answer_id).is_closed)
        => /\ hist[i].status # 200
           /\ After(i) = hist[i].pre

\* Call i is the asker accepting Y while another answer X of the same open
\* question is accepted.
IsReplacement(i, X) ==
    /\ IsAccept(i, {"accept_answer", "api_accept_answer"})
    /\ hist[i].user = QuestionOf(hist[i].pre, hist[i].answer_id).author_id
    /\ ~QuestionOf(hist[i].pre, hist[i].answer_id).is_closed
    /\ X # hist[i].answer_id
    /\ X \in AcceptedAnswers(hist[i].pre, hist[i].pre.answers[hist[i].answer_id].question_id)

\* C19: when the asker accepts Y while a different answer X of the question
\* is accepted, the call succeeds and, in its one commit, X stops being
\* accepted and its author (other than Y's) goes from r to max(0, r - 15),
\* Y is accepted, has_accepted_answer is true, accepted_answer_id is Y, and
\* Y's author (other than X's) gains 15.
C19_ReplaceAccepted ==
    \A i \in 1..Len(hist) : \A X \in AnswerIds :
        IsReplacement(i, X)
        => LET Y == hist[i].answer_id
               s0 == hist[i].pre
               s1 == After(i)
           IN
           /\ hist[i].status = 200
           /\ ~s1.answers[X].is_accepted
           /\ s1.answers[Y].is_accepted
           /\ QuestionOf(s1, Y).has_accepted_answer
           /\ QuestionOf(s1, Y).accepted_answer_id = Y
           /\ AuthorOf(s0, X) # AuthorOf(s0, Y)
              => /\ Rep(s1, AuthorOf(s0, X)) = Max(0, Rep(s0, AuthorOf(s0, X)) - 15)
                 /\ Rep(s1, AuthorOf(s0, Y)) = Rep(s0, AuthorOf(s0, Y)) + 15

\* C20: accept_answer for the answer that is already the accepted answer
\* of its question changes nothing: is_accepted, has_accepted_answer,
\* accepted_answer_id and the author's reputation stay as they were.
C20_AcceptIdempotence ==
    \A i \in 1..Len(hist) :
        (/\ IsAccept(i, {"accept_answer"})
         /\ hist[i].status = 200
         /\ hist[i].pre.answers[hist[i].answer_id].is_accepted
         /\ QuestionOf(hist[i].pre, hist[i].answer_id).has_accepted_answer
         /\ QuestionOf(hist[i].pre, hist[i].answer_id).accepted_answer_id = hist[i].answer_id)
        => After(i) = hist[i].pre

\* Call i is an unaccept request (the toggle with is_accepted = false) that
\* passed the permission check, for an answer that exists.
IsUnaccept(i) ==
    /\ hist[i].op = "api_accept_answer"
    /\ ~hist[i].arg
    /\ hist[i].pre.answers[hist[i].answer_id].exists
    /\ can_accept_answer(hist[i].pre, hist[i].answer_id, hist[i].user)

\* The answer is the accepted answer of its question in the rows D.
IsCurrentlyAccepted(D, answer_id) ==
    /\ D.answers[answer_id].is_accepted
    /\ QuestionOf(D, answer_id).has_accepted_answer
    /\ QuestionOf(D, answer_id).accepted_answer_id = answer_id

\* C21: unaccepting the currently accepted answer sets its is_accepted to
\* false, accepted_answer_id to null and has_accepted_answer to false, and
\* takes the author's reputation from r to max(0, r - 15).
C21_UnacceptInverse ==
    \A i \in 1..Len(hist) :
        (IsUnaccept(i) /\ IsCurrentlyAccepted(hist[i].pre, hist[i].answer_id))
        => LET a == hist[i].answer_id
               s0 == hist[i].pre
               s1 == After(i)
           IN
           /\ hist[i].status = 200
           /\ ~s1.answers[a].is_accepted
           /\ QuestionOf(s1, a).accepted_answer_id = NULL
           /\ ~QuestionOf(s1, a).has_accepted_answer
           /\ Rep(s1, AuthorOf(s0, a)) = Max(0, Rep(s0, AuthorOf(s0, a)) - 15)

\* C22: unaccepting an answer that is not accepted fails and leaves
\* accepted_answer_id, has_accepted_answer and every is_accepted unchanged.
C22_UnacceptNotAccepted ==
    \A i \in 1..Len(hist) :
        (IsUnaccept(i) /\ ~hist[i].pre.answers[hist[i].answer_id].is_accepted)
        => /\ hist[i].status # 200
           /\ After(i).questions = hist[i].pre.questions
           /\ After(i).answers = hist[i].pre.answers

(***************************************************************************)
(* Claims on the acceptance engine (SpecAccept).                           *)
(***************************************************************************)
\* C23: for every question, has_accepted_answer is true iff
\* accepted_answer_id is non-null, iff some answer of the question has
\* is_accepted = true, that answer being the one accepted_answer_id names.
C23_FlagAgreement ==
    \A q \in QuestionIds :
        /\ questions[q].has_accepted_answer <=> questions[q].accepted_answer_id # NULL
        /\ questions[q].has_accepted_answer <=> AcceptedAnswers(DB, q) # {}
        /\ AcceptedAnswers(DB, q) \subseteq {questions[q].accepted_answer_id}

(***************************************************************************)
(* Claims on the answers of a question (SpecAnswers).                      *)
(***************************************************************************)
\* The last call deleted an answer.
LastDeletedAnswer ==
    /\ hist # <<>>
    /\ hist[1].op = "delete_answer"
    /\ hist[1].status = 200

C27_AnswerCountLedger ==
    \A q \in QuestionIds :
        questions[q].exists
        => questions[q].answer_count = Cardinality(LiveAnswers(DB, q))

\* An answer was deleted while another one stays.
C27_Witness ==
    /\ LastDeletedAnswer
    /\ questions[1].answer_count = 1
    /\ Cardinality(LiveAnswers(DB, 1)) = 1

(***************************************************************************)
(* Claims on the content counters (SpecContent).                           *)
(***************************************************************************)
\* C26: every tag's usage_count equals the number of live QuestionTag rows
\* that name it, after questions are created, retagged and deleted.
C26_TagUsageLedger ==
    \A t \in TagNames :
        tags[t].usage_count = Cardinality(LiveQuestionTags(DB, t))

\* C28: every user's questions_count and answers_count equal the numbers
\* of live questions and live answers the user wrote, the deletion of a
\* question with its answers included.
C28_UserContentCounters ==
    \A u \in Users :
        /\ users[u].questions_count = Cardinality(LiveQuestionsBy(DB, u))
        /\ users[u].answers_count = Cardinality(LiveAnswersBy(DB, u))

\* C29: every answer's comment_count equals the number of live comments
\* under it.
C29_CommentCountLedger ==
    \A a \in AnswerIds :
        answers[a].exists
        => answers[a].comment_count = Cardinality(LiveComments(DB, a))

\* Both comments were posted under the only answer and one of them was
\* deleted.
C29_Witness ==
    /\ next_comment_id = 3
    /\ next_answer_id = 2
    /\ answers[1].exists
    /\ answers[1].comment_count = 1
    /\ Cardinality(LiveComments(DB, 1)) = 1

(***************************************************************************)
(* Claims on the application that server.py runs (SpecServer).             *)
(***************************************************************************)
\* Question 1 is open, has an answer, and an answer of it is accepted.
HasAcceptance ==
    /\ ~questions[1].is_closed
    /\ LiveAnswers(DB, 1) # {}
    /\ \/ questions[1].has_accepted_answer
       \/ AcceptedAnswers(DB, 1) # {}

\* Question 1 is open, has an answer, and no answer of it is accepted.
NoAcceptance ==
    /\ ~questions[1].is_closed
    /\ LiveAnswers(DB, 1) # {}
    /\ ~questions[1].has_accepted_answer
    /\ AcceptedAnswers(DB, 1) = {}

\* C25: an open question with an answer has no terminal acceptance state:
\* while requests are served, a question with an accepted answer comes
\* back to no accepted answer (and from there to an accepted answer again).
C25_NoTerminalAcceptance ==
    /\ HasAcceptance ~> NoAcceptance
    /\ NoAcceptance ~> HasAcceptance

\* Once an answer of question 1 is accepted, every request that server.py
\* serves leaves an answer of it accepted.
AcceptanceIsAbsorbing ==
    [][HasAcceptance => HasAcceptance']_vars

(***************************************************************************)
(* Claims on overlapping content requests (SpecOverlap).                   *)
(***************************************************************************)
NonNegative(D) ==
    /\ \A u \in Users :
          /\ D.users[u].reputation_score >= 0
          /\ D.users[u].questions_count >= 0
          /\ D.users[u].answers_count >= 0
    /\ \A q \in QuestionIds : D.questions[q].answer_count >= 0
    /\ \A a \in AnswerIds : D.answers[a].comment_count >= 0
    /\ \A t \in TagNames : D.tags[t].usage_count >= 0

TwoCastsOfOneUser ==
    /\ \A i \in ReqIds :
          /\ reqs[i].op \in {"vote_on_answer", "create_vote"}
          /\ reqs[i].user = reqs[1].user
          /\ reqs[i].answer_id = reqs[1].answer_id
          /\ reqs[i].user # db0.answers[reqs[i].answer_id].author_id
          /\ reqs[i].pc # "idle"
          /\ VoteRows(reqs[i].snap, reqs[i].user, reqs[i].answer_id) = <<>>

\* The requests that committed.
Committed == {i \in ReqIds : reqs[i].pc = "done" /\ reqs[i].status \in {200, 201}}

\* Every (user_id, answer_id) pair has at most one Vote row, and of two
\* overlapping casts of one user at most one commits.
OneVotePerUserPerAnswer ==
    /\ \A p \in DOMAIN votes : Len(votes[p]) <= 1
    /\ (AllDone /\ TwoCastsOfOneUser)
       => /\ Cardinality(Committed) = 1
          /\ \A i \in Committed :
                /\ votes[<<reqs[i].user, reqs[i].answer_id>>] = <<reqs[i].is_upvote>>
                /\ answers[reqs[i].answer_id].vote_score
                   = db0.answers[reqs[i].answer_id].vote_score
                     + NewVoteScoreDelta(reqs[i].is_upvote)

\* C31: there is at most one Vote row per (user_id, answer_id) in every
\* state; when one user's two casts for one answer overlap and both find no
\* vote, one request commits, and the answer's vote_score and the author's
\* reputation reflect exactly one vote.
C31_OneVotePerUserPerAnswer ==
    /\ OneVotePerUserPerAnswer
    /\ (AllDone /\ TwoCastsOfOneUser)
       => \A i \in Committed :
             LET author == db0.answers[reqs[i].answer_id].author_id IN
             users[author].reputation_score
             = ApplyReputationChange(db0, author,
                   NewVoteReputationChange(reqs[i].is_upvote)).users[author].reputation_score

(***************************************************************************)
(* Claims on overlapping answer requests (SpecOverlap).                    *)
(***************************************************************************)
\* Both requests post or delete an answer of question 1, both read the rows
\* before either committed, and both committed.
TwoAnswerRequestsOverlap ==
    \A i \in ReqIds :
        /\ reqs[i].pc = "done"
        /\ reqs[i].op \in {"create_answer", "delete_answer"}
        /\ reqs[i].status \in {200, 201}
        /\ reqs[i].snap = db0

\* C32: when two create_answer requests, or a create_answer and a
\* delete_answer, on one question overlap, each reading answer_count before
\* either commits, the committed answer_count equals the number of live
\* answers of the question.
C32_NoLostCounterUpdates ==
    TwoAnswerRequestsOverlap
    => \A q \in QuestionIds :
          questions[q].exists
          => questions[q].answer_count = Cardinality(LiveAnswers(DB, q))

(***************************************************************************)
(* Claims on the question's vote_score (Spec).                             *)
(***************************************************************************)
\* The sum of the vote_score of the answers in S.
RECURSIVE SumVoteScore(_, _)
SumVoteScore(D, S) ==
    IF S = {} THEN 0
    ELSE LET a == CHOOSE x \in S : TRUE
         IN D.answers[a].vote_score + SumVoteScore(D, S \ {a})

\* C33: every question's vote_score equals the sum of the vote_score of its
\* answers, after any sequence of casts, changes and removals.
C33_QuestionVoteScore ==
    \A q \in QuestionIds :
        questions[q].exists
        => questions[q].vote_score = SumVoteScore(DB, LiveAnswers(DB, q))

(***************************************************************************)
(* Claims on the notification hand-off (SpecNotify).                       *)
(***************************************************************************)
\* The rows D without the notifications table.
Core(D) == [D EXCEPT !.notifications = <<>>]

\* The last call was a create_answer on an open question.
LastCreatedAnswer ==
    /\ hist # <<>>
    /\ hist[1].op = "create_answer"
    /\ create_answer(hist[1].pre, hist[1].user, 1).status = 201

\* C34: create_answer commits the answer row, answer_count and answers_count
\* before it attempts a notification; a notification that fails does not
\* fail the request and leaves the committed answer, the counters, the
\* votes and the reputations as the commit left them.
C34_NotificationHandOff ==
    LastCreatedAnswer
    => LET c == hist[1]
           committed == create_answer(c.pre, c.user, 1).db
       IN
       /\ c.status = 201
       /\ Core(DB) = Core(committed)
       /\ answers[c.answer_id].exists
       /\ questions[1].answer_count = c.pre.questions[1].answer_count + 1
       /\ users[c.user].answers_count = c.pre.users[c.user].answers_count + 1
       /\ votes = c.pre.votes
       /\ \A u \in Users :
             users[u].reputation_score = c.pre.users[u].reputation_score
       /\ c.failing = NotificationKinds => notifications = c.pre.notifications

\* An answer that mentions another user was posted by a user who is not the
\* asker, after a vote, and both notifications failed.
C34_Witness ==
    /\ LastCreatedAnswer
    /\ hist[1].failing = NotificationKinds
    /\ hist[1].user # questions[1].author_id
    /\ hist[1].mentions \ {hist[1].user} # {}
    /\ hist[1].status = 201
    /\ answers[hist[1].answer_id].exists
    /\ \E p \in DOMAIN votes : votes[p] # <<>>

(***************************************************************************)
(* Claims on the vote engine as a function of the rows (SpecVoteLog).      *)
(***************************************************************************)
\* The vote_score of the answer and the reputation of its author in D.
ScoreAndReputation(D, answer_id) ==
    <<D.answers[answer_id].vote_score,
      D.users[D.answers[answer_id].author_id].reputation_score>>

\* One cast of the opposite vote over the existing one.
Flip(D, u, a) == vote_on_answer(D, u, a, ~VoteRows(D, u, a)[1]).db

\* The removal of the existing vote, then a new cast of the opposite vote.
RemoveThenRecast(D, u, a) ==
    vote_on_answer(remove_vote(D, u, a).db, u, a, ~VoteRows(D, u, a)[1]).db

\* C35: for every reputation and vote_score, changing an existing vote with
\* one cast leaves the same vote_score and the same author reputation as
\* removing the vote and casting the opposite one.
C35_FlipEqualsRemoveRecast ==
    \A u \in Users, a \in AnswerIds :
        (/\ answers[a].exists
         /\ answers[a].author_id # u
         /\ VoteRows(DB, u, a) # <<>>)
        => ScoreAndReputation(Flip(DB, u, a), a)
           = ScoreAndReputation(RemoveThenRecast(DB, u, a), a)

(***************************************************************************)
(* Claims on the two engines side by side (SpecEngines).                   *)
(***************************************************************************)
\* The acceptance columns of the rows D.
AcceptanceColumns(D) ==
    <<[a \in AnswerIds |-> D.answers[a].is_accepted],
      [q \in QuestionIds |-> <<D.questions[q].has_accepted_answer,
                                D.questions[q].accepted_answer_id>>]>>

\* Call i is a vote operation and leaves the acceptance columns and the
\* vote_score of every other answer as they were.
VoteFrame(i) ==
    hist[i].op \in {"vote_on_answer", "remove_vote"}
    => /\ AcceptanceColumns(After(i)) = AcceptanceColumns(hist[i].pre)
       /\ \A a \in AnswerIds \ {hist[i].answer_id} :
             After(i).answers[a].vote_score = hist[i].pre.answers[a].vote_score

\* The authors of the answer of call i and of the answers accepted before it.
AcceptanceAuthors(i) ==
    {hist[i].pre.answers[a].author_id :
        a \in {x \in AnswerIds :
                 /\ hist[i].pre.answers[x].exists
                 /\ \/ x = hist[i].answer_id
                    \/ hist[i].pre.answers[x].is_accepted}}

\* Call i is an acceptance operation and leaves every Vote row, every
\* vote_score and the reputation of every other user as they were.
AcceptFrame(i) ==
    hist[i].op \in {"accept_answer", "api_accept_answer"}
    => /\ After(i).votes = hist[i].pre.votes
       /\ \A a \in AnswerIds :
             After(i).answers[a].vote_score = hist[i].pre.answers[a].vote_score
       /\ \A u \in Users \ AcceptanceAuthors(i) :
             After(i).users[u].reputation_score
             = hist[i].pre.users[u].reputation_score

\* C36: a vote cast, change or removal changes no is_accepted, no
\* has_accepted_answer or accepted_answer_id and no vote_score but the
\* target's; an accept or unaccept changes no Vote row and no vote_score,
\* and the reputation of nobody but the authors of the newly and of the
\* previously accepted answer.
C36_EngineSeparation ==
    \A i \in 1..Len(hist) : VoteFrame(i) /\ AcceptFrame(i)

\* A vote was changed on an accepted answer, and an accepted answer was
\* replaced while votes were held.
C36_Witness ==
    /\ Len(hist) = 2
    /\ hist[1].op = "accept_answer" /\ hist[1].status = 200
    /\ hist[1].pre.answers[1].is_accepted /\ hist[1].answer_id = 2
    /\ hist[1].pre.votes[<<1, 1>>] = <<TRUE>>
    /\ hist[2].op = "vote_on_answer" /\ hist[2].status = 200
    /\ hist[2].user = 1 /\ hist[2].answer_id = 1 /\ ~hist[2].arg
    /\ answers[2].is_accepted
    /\ votes[<<1, 1>>] = <<FALSE>>

=============================================================================
